---- MODULE Spec2Model ----
(***************************************************************************)
(* Frame lifecycle and deferred-resource safety of FineStructureVulkan:    *)
(* DeferredDisposer (src/src/engine/deferred_disposer.cpp), Window         *)
(* (src/src/window/window.cpp), SwapChain, Fence/Semaphore and the         *)
(* LogicalDevice teardown (src/src/device/logical_device.cpp).             *)
(***************************************************************************)
EXTENDS Integers, Sequences, FiniteSets, TLC

(***************************************************************************)
(* Bounds of the model.                                                    *)
(***************************************************************************)
\* Largest frameDelay passed to dispose().
MaxDelay == 2
\* Number of dispose() calls in one behaviour.
MaxActions == 2

\* Largest WindowConfig::framesInFlight.
MaxFrames == 2
\* Largest framebuffer size (0 is a minimized window).
MaxSize == 2
\* Largest id LogicalDevice::onDestruction() hands out in one behaviour.
MaxCallbackId == 2
\* Largest number of recreations of one swap chain.
MaxGeneration == 2

MaxAdvances == 4
\* dispose() calls in the behaviours that examine the order of the queue
MaxQueue == 3

\* The ghost age of an entry saturates at the largest delay.
MaxAge == MaxDelay

(***************************************************************************)
(* DeferredDisposer                                                        *)
(*                                                                         *)
(* A deleter is a std::function<void()>.  What the disposer can observe of *)
(* it is its kind: it returns ("ok"), throws something derived from        *)
(* std::exception ("throws"), throws anything else ("throwsOther"), or is  *)
(* an empty std::function ("empty").                                       *)
(***************************************************************************)
VARIABLES
    pending,     \* DeferredDisposer::pending_ : Seq of PendingDisposal
    nextAction,  \* identity given to the next enqueued deleter (ghost)
    executed,    \* deleters invoked so far, in order (ghost)
    dropped,     \* deleters destroyed without being invoked (ghost)
    dRet,        \* the last disposer call and what it returned
    threads      \* per thread: the disposer call it is in and the entries
                 \* it has moved out of pending_ and not yet invoked

dvars == <<pending, nextAction, executed, dropped, dRet, threads>>

(***************************************************************************)
(* Window, SwapChain, Fence/Semaphore, LogicalDevice, the GPU and GLFW     *)
(***************************************************************************)
VARIABLES
    framesInFlight,            \* WindowConfig::framesInFlight
    windowAlive,               \* the Window has not been destroyed
    windowDevice,              \* Window::device_ != nullptr
    deviceDestructionCallbackId, \* Window::deviceDestructionCallbackId_
    swapChain,                 \* Window::swapChain_ and the SwapChain it owns
    inFlightFences,            \* Window::inFlightFences_ : TRUE = signaled
    imageAvailableSemaphores,  \* TRUE = a signal is pending
    renderFinishedSemaphores,  \* TRUE = a signal is pending
    currentFrameIndex,         \* Window::currentFrameIndex_
    currentImageIndex,         \* Window::currentImageIndex_
    framebufferResized,        \* Window::framebufferResized_
    pc,                        \* where the frame thread is
    caller,                    \* the frame call recreateSwapChain() runs in
    width,                     \* recreateSwapChain(): the size it last read
    frame,                     \* the FrameInfo the consumer holds
    submitted,                 \* the consumer has submitted for `frame`
    wRet,                      \* the last Window call and what it returned
    calls,                     \* device and platform calls of that call (ghost)
    vkDevice,                  \* LogicalDevice::device_ != VK_NULL_HANDLE
    destructionCallbacks,      \* LogicalDevice::destructionCallbacks_
    nextCallbackId,            \* LogicalDevice::nextCallbackId_
    callbacksInvoked,          \* ids of destruction callbacks invoked (ghost)
    inFlight,                  \* slots of the submissions the GPU has not retired
    fbSize,                    \* glfwGetFramebufferSize(): 0 = minimized
    events,                    \* GLFW events not yet dispatched
    useAfterFree               \* a dangling LogicalDevice* was dereferenced

(***************************************************************************)
(* GameLoop                                                                *)
(***************************************************************************)
VARIABLES
    isRunning,   \* GameLoop::isRunning_
    inRun,       \* control is inside the loop of GameLoop::run() (ghost)
    gcCounter,   \* GameLoop::gcCounter_
    gcCalls      \* disposer calls made by the last runFrame() (ghost)

(***************************************************************************)
(* FrameSyncObjects                                                        *)
(***************************************************************************)
VARIABLES
    frameSync,      \* the FrameSyncObjects: inFlight_ (TRUE = signaled),
                    \* currentFrame_; exists = it has been constructed
    syncBusy,       \* slots whose fence an unretired submission will signal
    advances,       \* advanceFrame() calls since the construction (ghost)
    syncRet,        \* the last FrameSyncObjects call
    syncUndefined   \* a call with undefined behaviour was made

(***************************************************************************)
(* Direct callers of SwapChain, SimpleRenderer, and the health of the GPU  *)
(***************************************************************************)
VARIABLES
    scRet,       \* the last SwapChain call made directly and its result
    deviceLost,  \* the device is lost: its calls report VK_ERROR_DEVICE_LOST
    mutex,       \* DeferredDisposer::mutex_: "free" or the thread that holds it
    renderer,    \* a SimpleRenderer exists on the window
    framebuffers,     \* SimpleRenderer::framebuffers_: the swap-chain
                      \* generation and extent they were built from
    frameInProgress,  \* SimpleRenderer::frameInProgress_
    currentFrameInfo, \* SimpleRenderer::currentFrameInfo_
    rpc,         \* where the SimpleRenderer call in progress stands
    renderPass   \* the last render pass recorded: the generation of its
                 \* framebuffer and of the swap chain at that time (ghost)

winvars == <<framesInFlight, windowAlive, windowDevice,
             deviceDestructionCallbackId, swapChain, inFlightFences,
             imageAvailableSemaphores, renderFinishedSemaphores,
             currentFrameIndex, currentImageIndex, framebufferResized,
             pc, caller, width, frame, submitted, wRet, calls>>
devvars == <<vkDevice, destructionCallbacks, nextCallbackId, callbacksInvoked>>
envvars == <<inFlight, fbSize, events, useAfterFree>>
wvars == <<winvars, devvars, envvars>>
gvars == <<isRunning, inRun, gcCounter, gcCalls>>
svars == <<frameSync, syncBusy, advances, syncRet, syncUndefined>>
rvars == <<renderer, framebuffers, frameInProgress, currentFrameInfo, rpc,
           renderPass>>
cvars == <<scRet, deviceLost, mutex, rvars>>
vars == <<dvars, wvars, gvars, svars, cvars>>

DeleterKinds == {"ok", "throws", "throwsOther", "empty"}

\* struct PendingDisposal { deleter; framesRemaining; } with the ghost fields
\* delay (the frameDelay given to dispose) and age (processFrame() calls
\* completed since the enqueue, saturating at MaxAge).
PendingDisposal(id, kind, frameDelay) ==
    [id |-> id, deleter |-> kind, framesRemaining |-> frameDelay,
     delay |-> frameDelay, age |-> 0]

Min(a, b) == IF a < b THEN a ELSE b

\* The record of one invocation of a deleter.
Invocation(e, by) ==
    [id |-> e.id, deleter |-> e.deleter, by |-> by, delay |-> e.delay]

\* The record of a deleter destroyed without having been invoked.
Dropped(e) == [id |-> e.id, deleter |-> e.deleter]

\* The threads that call the disposer.
Threads == {"render", "worker"}

\* A thread outside every disposer call.
IdleThread == [pc |-> "idle", held |-> <<>>]

\* try { deleter(); } catch (const std::exception&) { log }
\* TRUE when the exception leaves the try block.
Escapes(kind) == kind = "throwsOther"

DisposerInit ==
    /\ pending = <<>>
    /\ nextAction = 1
    /\ executed = <<>>
    /\ dropped = {}
    /\ dRet = [op |-> "none", val |-> "void"]
    /\ threads = [t \in Threads |-> IdleThread]

\* A processFrame() that counts two frames at once.
DecrementByTwo(framesRemaining) ==
    IF framesRemaining > 1 THEN framesRemaining - 2 ELSE 0

\* A decrement without the test for zero: 0 wraps to the largest counter value
\* of the model.
DecrementWrapping(framesRemaining) ==
    IF framesRemaining > 0 THEN framesRemaining - 1 ELSE MaxDelay

\* processFrame(): if (framesRemaining > 0) framesRemaining--;
Decrement(framesRemaining) ==
    IF framesRemaining > 0 THEN framesRemaining - 1 ELSE framesRemaining

\* for (i = 0; i < pending_.size(); ++i) if (pending_[i].framesRemaining == 0)
\* The index of the first ready entry, 0 when there is none.
FirstReady(p) ==
    LET ready == {i \in 1..Len(p) : p[i].framesRemaining = 0}
    IN IF ready = {} THEN 0
       ELSE CHOOSE i \in ready : \A j \in ready : i <= j

\* if (i != size-1) pending_[i] = std::move(pending_.back()); pending_.pop_back();
RemoveAt(p, i) ==
    LET n == Len(p)
        front == SubSeq(p, 1, n - 1)
    IN IF i # n THEN [front EXCEPT ![i] = p[n]] ELSE front

\* One run of tryDisposeOne() on queue p: the queue left, the entries whose
\* deleter was invoked, the ids whose deleter was destroyed uninvoked, and the
\* outcome ("true", "false", or "exception" when a throw leaves the call).
TryOne(p) ==
    LET i == FirstReady(p)
    IN IF i = 0
       THEN [pending |-> p, invoked |-> <<>>, dropped |-> {}, val |-> "false"]
       ELSE LET e == p[i]
                q == RemoveAt(p, i)
            IN IF e.deleter = "empty"
               THEN [pending |-> q, invoked |-> <<>>, dropped |-> {Dropped(e)},
                     val |-> "false"]
               ELSE [pending |-> q, invoked |-> <<e>>, dropped |-> {},
                     val |-> IF Escapes(e.deleter) THEN "exception" ELSE "true"]

\* disposeReady(): while (tryDisposeOne()) {}
RECURSIVE ReadyLoop(_, _, _)
ReadyLoop(p, inv, drp) ==
    LET r == TryOne(p)
    IN IF r.val = "true"
       THEN ReadyLoop(r.pending, inv \o r.invoked, drp \cup r.dropped)
       ELSE [pending |-> r.pending, invoked |-> inv \o r.invoked,
             dropped |-> drp \cup r.dropped,
             val |-> IF r.val = "exception" THEN "exception" ELSE "void"]

\* disposeAll(): for (auto& disposal : toDispose) try { disposal.deleter(); }
\* catch (const std::exception&).  Calling an empty std::function throws
\* std::bad_function_call, which is caught.  When a throw leaves the loop the
\* rest of toDispose is destroyed uninvoked.
RECURSIVE AllLoop(_, _, _)
AllLoop(toDispose, i, inv) ==
    IF i > Len(toDispose)
    THEN [invoked |-> inv, dropped |-> {}, val |-> "void"]
    ELSE IF Escapes(toDispose[i].deleter)
         THEN [invoked |-> Append(inv, toDispose[i]),
               dropped |-> {Dropped(toDispose[j]) :
                               j \in (i + 1)..Len(toDispose)},
               val |-> "exception"]
         ELSE AllLoop(toDispose, i + 1, Append(inv, toDispose[i]))

Invocations(entries, by) ==
    [i \in 1..Len(entries) |-> Invocation(entries[i], by)]

\* void DeferredDisposer::dispose(deleter, frameDelay), for at most `bound`
\* calls in a behaviour
Enqueue(kind, frameDelay, bound) ==
    /\ nextAction <= bound
    /\ pending' = Append(pending, PendingDisposal(nextAction, kind, frameDelay))
    /\ nextAction' = nextAction + 1
    /\ dRet' = [op |-> "dispose", val |-> "void"]
    /\ UNCHANGED <<executed, dropped, threads, wvars, gvars, svars, cvars>>

\* void DeferredDisposer::dispose(deleter, frameDelay)
Dispose(kind, frameDelay) == Enqueue(kind, frameDelay, MaxActions)

\* The queue after one processFrame(): for (auto& disposal : pending_)
\* if (disposal.framesRemaining > 0) disposal.framesRemaining--;
FramePassed(p) ==
    [i \in 1..Len(p) |->
        [p[i] EXCEPT !.framesRemaining = Decrement(@),
                     !.age = Min(@ + 1, MaxAge)]]

\* void DeferredDisposer::processFrame()
ProcessFrame ==
    /\ pending' = FramePassed(pending)
    /\ dRet' = [op |-> "processFrame", val |-> "void"]
    /\ UNCHANGED <<nextAction, executed, dropped, threads, wvars, gvars, svars, cvars>>

\* bool DeferredDisposer::tryDisposeOne()
TryDisposeOne ==
    LET r == TryOne(pending)
    IN /\ pending' = r.pending
       /\ executed' = executed \o Invocations(r.invoked, "tryDisposeOne")
       /\ dropped' = dropped \cup r.dropped
       /\ dRet' = [op |-> "tryDisposeOne", val |-> r.val]
       /\ UNCHANGED <<nextAction, threads, wvars, gvars, svars, cvars>>

\* void DeferredDisposer::disposeReady()
DisposeReady ==
    LET r == ReadyLoop(pending, <<>>, {})
    IN /\ pending' = r.pending
       /\ executed' = executed \o Invocations(r.invoked, "disposeReady")
       /\ dropped' = dropped \cup r.dropped
       /\ dRet' = [op |-> "disposeReady", val |-> r.val]
       /\ UNCHANGED <<nextAction, threads, wvars, gvars, svars, cvars>>

\* void DeferredDisposer::disposeAll()
DisposeAll ==
    LET r == AllLoop(pending, 1, <<>>)
    IN /\ pending' = <<>>
       /\ executed' = executed \o Invocations(r.invoked, "disposeAll")
       /\ dropped' = dropped \cup r.dropped
       /\ dRet' = [op |-> "disposeAll", val |-> r.val]
       /\ UNCHANGED <<nextAction, threads, wvars, gvars, svars, cvars>>

DisposeAny == \E kind \in DeleterKinds, k \in 0..MaxDelay : Dispose(kind, k)

NextDisposer ==
    \/ DisposeAny
    \/ ProcessFrame
    \/ TryDisposeOne
    \/ DisposeReady
    \/ DisposeAll

(***************************************************************************)
(* DeferredDisposer called from several threads.  Every block under        *)
(* std::lock_guard<std::mutex> lock(mutex_) is one step; the deleters run   *)
(* outside the lock, in steps of their own.                                 *)
(***************************************************************************)
\* size_t DeferredDisposer::readyCount() const
ReadyCount(p) == Cardinality({i \in 1..Len(p) : p[i].framesRemaining = 0})

\* Some thread is free to make a call.
SomeThreadIdle == \E t \in Threads : threads[t].pc = "idle"

\* dispose() on any thread: the whole call is under the lock.  An entry is
\* ready at once (frameDelay 0) or after one processFrame() (frameDelay 1).
ThreadDispose ==
    /\ SomeThreadIdle
    /\ \E kind \in DeleterKinds, k \in {0, 1} : Dispose(kind, k)

\* processFrame() on any thread: the whole call is under the lock.
ThreadProcessFrame == SomeThreadIdle /\ ProcessFrame

\* pendingCount() / readyCount() on any thread, under the lock.
ThreadCount ==
    /\ SomeThreadIdle
    /\ \/ dRet' = [op |-> "pendingCount", val |-> ToString(Len(pending))]
       \/ dRet' = [op |-> "readyCount", val |-> ToString(ReadyCount(pending))]
    /\ UNCHANGED <<pending, nextAction, executed, dropped, threads, wvars, gvars, svars, cvars>>

\* The locked block of tryDisposeOne() on thread t, inside the call op: find
\* the first ready entry, move its deleter out and remove it from pending_.
LockedTake(t, op) ==
    LET i == FirstReady(pending)
    IN IF i = 0
       THEN /\ dRet' = [op |-> op,
                        val |-> IF op = "tryDisposeOne" THEN "false" ELSE "void"]
            /\ threads' = [threads EXCEPT ![t] = IdleThread]
            /\ UNCHANGED pending
       ELSE /\ pending' = RemoveAt(pending, i)
            /\ threads' = [threads EXCEPT
                              ![t] = [pc |-> op, held |-> <<pending[i]>>]]
            /\ UNCHANGED dRet

\* tryDisposeOne() on thread t, up to the release of the lock
ThreadTryDisposeOne ==
    /\ \E t \in Threads :
         /\ threads[t].pc = "idle"
         /\ LockedTake(t, "tryDisposeOne")
    /\ UNCHANGED <<nextAction, executed, dropped, wvars, gvars, svars, cvars>>

\* disposeReady() on thread t: the locked block of one tryDisposeOne() of its
\* loop
ThreadDisposeReady ==
    /\ \E t \in Threads :
         /\ \/ threads[t].pc = "idle"
            \/ threads[t].pc = "disposeReady" /\ threads[t].held = <<>>
         /\ LockedTake(t, "disposeReady")
    /\ UNCHANGED <<nextAction, executed, dropped, wvars, gvars, svars, cvars>>

\* tryDisposeOne() from the release of the lock on: if (deleter) { try {
\* deleter(); } catch (const std::exception&) {} return true; } return false;
ThreadInvoke ==
    /\ \E t \in Threads :
         /\ threads[t].pc \in {"tryDisposeOne", "disposeReady"}
         /\ threads[t].held # <<>>
         /\ LET e == threads[t].held[1]
                op == threads[t].pc
            IN IF e.deleter = "empty"
               THEN /\ dropped' = dropped \cup {Dropped(e)}
                    /\ dRet' = [op |-> op,
                                val |-> IF op = "tryDisposeOne"
                                        THEN "false" ELSE "void"]
                    /\ threads' = [threads EXCEPT ![t] = IdleThread]
                    /\ UNCHANGED executed
               ELSE /\ executed' = Append(executed, Invocation(e, op))
                    /\ UNCHANGED dropped
                    /\ IF Escapes(e.deleter)
                       THEN /\ dRet' = [op |-> op, val |-> "exception"]
                            /\ threads' = [threads EXCEPT ![t] = IdleThread]
                       ELSE IF op = "tryDisposeOne"
                       THEN /\ dRet' = [op |-> op, val |-> "true"]
                            /\ threads' = [threads EXCEPT ![t] = IdleThread]
                       ELSE /\ threads' = [threads EXCEPT ![t].held = <<>>]
                            /\ UNCHANGED dRet
    /\ UNCHANGED <<pending, nextAction, wvars, gvars, svars, cvars>>

\* disposeAll() on thread t, up to the release of the lock:
\* toDispose = std::move(pending_); pending_.clear();
ThreadDisposeAll ==
    /\ \E t \in Threads :
         /\ threads[t].pc = "idle"
         /\ threads' = [threads EXCEPT
                           ![t] = [pc |-> "disposeAll", held |-> pending]]
    /\ pending' = <<>>
    /\ UNCHANGED <<nextAction, executed, dropped, dRet, wvars, gvars, svars, cvars>>

\* disposeAll(): one iteration of the loop over toDispose, or its end
ThreadInvokeAll ==
    /\ \E t \in Threads :
         /\ threads[t].pc = "disposeAll"
         /\ IF threads[t].held = <<>>
            THEN /\ dRet' = [op |-> "disposeAll", val |-> "void"]
                 /\ threads' = [threads EXCEPT ![t] = IdleThread]
                 /\ UNCHANGED <<executed, dropped>>
            ELSE LET e == Head(threads[t].held)
                     rest == Tail(threads[t].held)
                 IN /\ executed' = Append(executed, Invocation(e, "disposeAll"))
                    /\ IF Escapes(e.deleter)
                       THEN /\ dropped' = dropped \cup
                                   {Dropped(rest[j]) : j \in 1..Len(rest)}
                            /\ dRet' = [op |-> "disposeAll",
                                        val |-> "exception"]
                            /\ threads' = [threads EXCEPT ![t] = IdleThread]
                       ELSE /\ threads' = [threads EXCEPT ![t].held = rest]
                            /\ UNCHANGED <<dropped, dRet>>
    /\ UNCHANGED <<pending, nextAction, wvars, gvars, svars, cvars>>

NextThreads ==
    \/ ThreadDispose
    \/ ThreadProcessFrame
    \/ ThreadCount
    \/ ThreadTryDisposeOne
    \/ ThreadDisposeReady
    \/ ThreadInvoke
    \/ ThreadDisposeAll
    \/ ThreadInvokeAll


(***************************************************************************)
(* LogicalDevice: the destruction-callback registry and waitIdle()         *)
(***************************************************************************)
\* size_t LogicalDevice::onDestruction(callback): the registry after the call.
\* The id returned is nextCallbackId_, which the call increments.
OnDestruction(cbs, id, owner) == Append(cbs, [id |-> id, owner |-> owner])

\* void LogicalDevice::removeDestructionCallback(id)
RemoveDestructionCallback(cbs, id) ==
    LET Keep(c) == c.id # id
    IN SelectSeq(cbs, Keep)

\* void LogicalDevice::waitIdle(): vkDeviceWaitIdle() returns once the GPU has
\* retired every submission, so the fence of each submission is signaled.
FencesAfterIdle(fences, subs) ==
    [i \in DOMAIN fences |-> fences[i] \/ \E k \in 1..Len(subs) : subs[k] = i]

\* A wait that returns whatever the state of the fence.
FenceWaitIgnored(fences, i) == TRUE

\* void Fence::wait(timeout = UINT64_MAX): vkWaitForFences returns once the
\* fence is signaled.  TRUE when the wait on fence i can return.
FenceWait(fences, i) == fences[i]

\* void Fence::reset()
FenceReset(fences, i) == [fences EXCEPT ![i] = FALSE]

(***************************************************************************)
(* SwapChain                                                               *)
(***************************************************************************)
\* generation counts the VkSwapchainKHR handles SwapChain::recreate() has
\* created for this swap chain (each replaces the images and the views).
NoSwapChain ==
    [exists |-> FALSE, extent |-> 0, needsRecreation |-> FALSE, generation |-> 0]

\* SwapChain::Builder::build(): the extent is the surface's current extent.
CreateSwapChain(size) ==
    [exists |-> TRUE, extent |-> size, needsRecreation |-> FALSE,
     generation |-> 0]

\* What vkAcquireNextImageKHR / vkQueuePresentKHR can report: success while the
\* swap chain matches the surface; success, suboptimal or out-of-date once the
\* surface has changed.
SurfaceResults(sc) ==
    IF sc.extent = fbSize
    THEN {"VK_SUCCESS"}
    ELSE {"VK_SUCCESS", "VK_SUBOPTIMAL_KHR", "VK_ERROR_OUT_OF_DATE_KHR"}

\* The image indices vkAcquireNextImageKHR can return: a swap chain of two images.
ImageIndices == {0, 1}

\* An acquire that never raises the flag.
AcquireUnflagged(sc, vk) == sc

\* AcquireResult SwapChain::acquireNextImage(): the swap chain after the call.
AcquireNextImage(sc, vk) ==
    IF vk = "VK_ERROR_OUT_OF_DATE_KHR"
    THEN [sc EXCEPT !.needsRecreation = TRUE]
    ELSE sc

\* VkResult SwapChain::present(): the swap chain after the call.
Present(sc, vk) ==
    IF vk \in {"VK_ERROR_OUT_OF_DATE_KHR", "VK_SUBOPTIMAL_KHR"}
    THEN [sc EXCEPT !.needsRecreation = TRUE]
    ELSE sc

\* A recreation that does nothing when the extent is already the target.
RecreateIfResized(sc, w) ==
    IF sc.extent = w
    THEN [sc EXCEPT !.needsRecreation = FALSE]
    ELSE [sc EXCEPT !.extent = w, !.needsRecreation = FALSE,
                    !.generation = @ + 1]

\* A recreation that is not counted as a new generation.
RecreateUncounted(sc, w) == [sc EXCEPT !.extent = w, !.needsRecreation = FALSE]

\* A recreation that keeps the old extent.
RecreateSameExtent(sc, w) == [sc EXCEPT !.needsRecreation = FALSE]

\* void SwapChain::recreate(width, height)
Recreate(sc, w) ==
    [sc EXCEPT !.extent = w, !.needsRecreation = FALSE,
               !.generation = @ + 1]

(***************************************************************************)
(* Window                                                                  *)
(***************************************************************************)
NoFrame == [valid |-> FALSE, frameIndex |-> 0, imageIndex |-> 0]

Slots == 0..(framesInFlight - 1)

\* Fences created unsignaled.
CreateFencesUnsignaled == [i \in Slots |-> FALSE]

\* Window::createSyncObjects(): Fence(device_, true) starts signaled.
CreateFences == [i \in Slots |-> TRUE]
CreateSemaphores == [i \in Slots |-> FALSE]

\* inFlightFences_.clear() and the like
Cleared == [i \in {} |-> FALSE]

Returned(op, val) == [op |-> op, val |-> val]

\* An advance without the wrap-around.
AdvanceUnwrapped(index) == index + 1

\* currentFrameIndex_ = (currentFrameIndex_ + 1) % config_.framesInFlight
Advance(index) == (index + 1) % framesInFlight

\* An invalidation test that forgets the resize flag.
InvalidatedByResult(vk, resized) ==
    vk \in {"VK_ERROR_OUT_OF_DATE_KHR", "VK_SUBOPTIMAL_KHR"}

\* endFrame(): result == VK_ERROR_OUT_OF_DATE_KHR || result == VK_SUBOPTIMAL_KHR
\*             || framebufferResized_
Invalidated(vk, resized) ==
    vk \in {"VK_ERROR_OUT_OF_DATE_KHR", "VK_SUBOPTIMAL_KHR"} \/ resized

\* A minimized check that never reports a minimized window.
NeverMinimized(size) == FALSE

\* bool Window::isMinimized(): width == 0 || height == 0
IsMinimized(size) == size = 0

\* A loop condition that also holds for the smallest non-zero size.
AtMostOne(w) == w <= 1

\* recreateSwapChain(): the loop condition width == 0 || height == 0
ZeroSize(w) == w = 0

WindowInit ==
    /\ framesInFlight \in 1..MaxFrames
    /\ windowAlive = TRUE
    /\ windowDevice = FALSE
    /\ deviceDestructionCallbackId = 0
    /\ swapChain = NoSwapChain
    /\ inFlightFences = Cleared
    /\ imageAvailableSemaphores = Cleared
    /\ renderFinishedSemaphores = Cleared
    /\ currentFrameIndex = 0
    /\ currentImageIndex = 0
    /\ framebufferResized = FALSE
    /\ pc = "idle"
    /\ caller = "none"
    /\ width = 0
    /\ frame = NoFrame
    /\ submitted = FALSE
    /\ wRet = Returned("none", "void")
    /\ calls = <<>>
    /\ vkDevice = TRUE
    /\ destructionCallbacks = <<>>
    /\ nextCallbackId = 1
    /\ callbacksInvoked = <<>>
    /\ inFlight = <<>>
    /\ fbSize \in 1..MaxSize
    /\ events = {}
    /\ useAfterFree = FALSE

\* GameLoop::GameLoop(window, renderTarget, disposer) and the member
\* initialisers of game_loop.hpp
GameLoopInit ==
    /\ isRunning = FALSE
    /\ inRun = FALSE
    /\ gcCounter = 0
    /\ gcCalls = <<>>

\* No FrameSyncObjects has been constructed.
NoFrameSync == [exists |-> FALSE, inFlight |-> <<>>, currentFrame |-> 0]

FrameSyncInit ==
    /\ frameSync = NoFrameSync
    /\ syncBusy = {}
    /\ advances = 0
    /\ syncRet = "none"
    /\ syncUndefined = FALSE

\* No SwapChain call has been made.
NoCall == [op |-> "none", vk |-> "VK_SUCCESS", imageIndex |-> 0]

\* No SwapChainFramebuffers.
NoFramebuffers == [built |-> FALSE, generation |-> 0, extent |-> 0]

\* No render pass has been recorded.
NoRenderPass == [recorded |-> FALSE, framebuffer |-> 0, swapChain |-> 0]

ConsumerInit ==
    /\ scRet = NoCall
    /\ deviceLost = FALSE
    /\ mutex = "free"
    /\ renderer = FALSE
    /\ framebuffers = NoFramebuffers
    /\ frameInProgress = FALSE
    /\ currentFrameInfo = [valid |-> FALSE, frameIndex |-> 0, imageIndex |-> 0]
    /\ rpc = "idle"
    /\ renderPass = NoRenderPass

Init ==
    DisposerInit /\ WindowInit /\ GameLoopInit /\ FrameSyncInit /\ ConsumerInit

\* The frame thread is outside every call; nothing is modelled after a
\* dangling LogicalDevice* has been dereferenced.
Idle == pc = "idle" /\ ~useAfterFree

\* A bind that never finds the window bound.
NeverBound(device) == FALSE

\* bindDevice(): if (device_) throw std::runtime_error(...)
AlreadyBound(device) == device

\* void Window::bindDevice(LogicalDevice& device)
BindDevice ==
    /\ Idle /\ windowAlive /\ vkDevice
    /\ IF AlreadyBound(windowDevice)
       THEN /\ wRet' = Returned("bindDevice", "throw")
            /\ calls' = <<>>
            /\ UNCHANGED <<windowDevice, deviceDestructionCallbackId, swapChain,
                           inFlightFences, imageAvailableSemaphores,
                           renderFinishedSemaphores, frame, submitted,
                           destructionCallbacks, nextCallbackId>>
       ELSE /\ fbSize # 0
            /\ nextCallbackId <= MaxCallbackId
            /\ windowDevice' = TRUE
            /\ deviceDestructionCallbackId' = nextCallbackId
            /\ destructionCallbacks' =
                   OnDestruction(destructionCallbacks, nextCallbackId, "window")
            /\ nextCallbackId' = nextCallbackId + 1
            /\ swapChain' = CreateSwapChain(fbSize)
            /\ inFlightFences' = CreateFences
            /\ imageAvailableSemaphores' = CreateSemaphores
            /\ renderFinishedSemaphores' = CreateSemaphores
            /\ frame' = NoFrame
            /\ submitted' = FALSE
            /\ wRet' = Returned("bindDevice", "void")
            /\ calls' = <<"onDestruction", "createSwapChain", "createSyncObjects">>
    /\ UNCHANGED <<framesInFlight, windowAlive, currentFrameIndex,
                   currentImageIndex, framebufferResized, pc, caller, width,
                   vkDevice, callbacksInvoked, envvars, dvars, gvars, svars, cvars>>

\* A release that returns without touching anything.
ReleaseNothing(op) ==
    /\ wRet' = Returned(op, "void")
    /\ calls' = <<>>
    /\ UNCHANGED <<destructionCallbacks, deviceDestructionCallbackId, inFlight,
                   inFlightFences, renderFinishedSemaphores,
                   imageAvailableSemaphores, swapChain, windowDevice, frame,
                   submitted>>

\* The body of Window::releaseDeviceResources() once device_ is known non-null.
ReleaseBound(op) ==
    /\ destructionCallbacks' =
           IF deviceDestructionCallbackId # 0
           THEN RemoveDestructionCallback(destructionCallbacks,
                                          deviceDestructionCallbackId)
           ELSE destructionCallbacks
    /\ deviceDestructionCallbackId' = 0
    /\ inFlight' = <<>>
    /\ inFlightFences' = Cleared
    /\ renderFinishedSemaphores' = Cleared
    /\ imageAvailableSemaphores' = Cleared
    /\ swapChain' = NoSwapChain
    /\ windowDevice' = FALSE
    /\ frame' = NoFrame
    /\ submitted' = FALSE
    /\ wRet' = Returned(op, "void")
    /\ calls' = (IF deviceDestructionCallbackId # 0
                 THEN <<"removeDestructionCallback">> ELSE <<>>)
                \o <<"waitIdle", "destroyFences", "destroySemaphores",
                     "destroySwapChain">>

\* void Window::releaseDeviceResources()
ReleaseDeviceResources ==
    /\ Idle /\ windowAlive
    /\ IF ~windowDevice
       THEN /\ wRet' = Returned("releaseDeviceResources", "void")
            /\ calls' = <<>>
            /\ UNCHANGED <<windowDevice, deviceDestructionCallbackId, swapChain,
                           inFlightFences, imageAvailableSemaphores,
                           renderFinishedSemaphores, frame, submitted,
                           destructionCallbacks, inFlight, useAfterFree>>
       ELSE IF ~vkDevice
       THEN /\ useAfterFree' = TRUE
            /\ wRet' = Returned("releaseDeviceResources", "undefined")
            /\ UNCHANGED <<windowDevice, deviceDestructionCallbackId, swapChain,
                           inFlightFences, imageAvailableSemaphores,
                           renderFinishedSemaphores, frame, submitted,
                           destructionCallbacks, inFlight, calls>>
       ELSE /\ ReleaseBound("releaseDeviceResources")
            /\ UNCHANGED useAfterFree
    /\ UNCHANGED <<framesInFlight, windowAlive, currentFrameIndex,
                   currentImageIndex, framebufferResized, pc, caller, width,
                   vkDevice, nextCallbackId, callbacksInvoked, fbSize, events,
                   dvars, gvars, svars, cvars>>

\* Window::~Window() -> Window::cleanup()
WindowDestroy ==
    /\ Idle /\ windowAlive
    /\ IF ~windowDevice
       THEN /\ inFlightFences' = Cleared
            /\ renderFinishedSemaphores' = Cleared
            /\ imageAvailableSemaphores' = Cleared
            /\ swapChain' = NoSwapChain
            /\ windowAlive' = FALSE
            /\ frame' = NoFrame
            /\ submitted' = FALSE
            /\ wRet' = Returned("cleanup", "void")
            /\ calls' = <<>>
            /\ UNCHANGED <<windowDevice, deviceDestructionCallbackId,
                           destructionCallbacks, inFlight, useAfterFree>>
       ELSE IF ~vkDevice
       THEN /\ useAfterFree' = TRUE
            /\ wRet' = Returned("cleanup", "undefined")
            /\ UNCHANGED <<windowAlive, windowDevice,
                           deviceDestructionCallbackId, swapChain,
                           inFlightFences, imageAvailableSemaphores,
                           renderFinishedSemaphores, frame, submitted,
                           destructionCallbacks, inFlight, calls>>
       ELSE /\ ReleaseBound("cleanup")
            /\ windowAlive' = FALSE
            /\ UNCHANGED useAfterFree
    /\ UNCHANGED <<framesInFlight, currentFrameIndex, currentImageIndex,
                   framebufferResized, pc, caller, width, vkDevice,
                   nextCallbackId, callbacksInvoked, fbSize, events, dvars, gvars, svars, cvars>>

\* The entry of the log of calls that marks a SwapChain::recreate(w, h) made
\* while the swap chain already has the extent w (ghost).
AtTargetSize(sc, w) == IF sc.extent = w THEN <<"atTargetSize">> ELSE <<>>

\* void Window::recreateSwapChain(), called from `from` with swap chain sc,
\* fences `fences` and the calls `log` made so far: device_->waitIdle(), read
\* the framebuffer size, and either recreate or enter the loop
\*   while (width == 0 || height == 0) { glfwGetFramebufferSize; glfwWaitEvents; }
RecreateSwapChain(from, sc, log) ==
    /\ inFlight' = <<>>
    /\ inFlightFences' = FencesAfterIdle(inFlightFences, inFlight)
    /\ IF ZeroSize(fbSize)
       THEN /\ pc' = "recreate_waitEvents"
            /\ caller' = from
            /\ width' = fbSize
            /\ swapChain' = sc
            /\ wRet' = Returned(from, "pending")
            /\ calls' = log \o <<"waitIdle", "glfwWaitEvents">>
       ELSE /\ pc' = "idle"
            /\ caller' = "none"
            /\ width' = 0
            /\ swapChain' = Recreate(sc, fbSize)
            /\ wRet' = Returned(from, IF from = "beginFrame"
                                      THEN "nullopt" ELSE "false")
            /\ calls' = log \o <<"waitIdle">> \o AtTargetSize(sc, fbSize)
                            \o <<"recreate">>

\* recreateSwapChain(): glfwWaitEvents() returns after dispatching the pending
\* events; the loop condition is then tested on the size read before the wait.
WindowRecreateWaitEvents ==
    /\ pc = "recreate_waitEvents" /\ ~useAfterFree
    /\ events # {}
    /\ events' = {}
    /\ framebufferResized' = (framebufferResized \/ "resize" \in events)
    /\ IF ZeroSize(width)
       THEN /\ width' = fbSize
            /\ UNCHANGED <<pc, caller, swapChain, wRet, calls>>
       ELSE /\ pc' = "idle"
            /\ caller' = "none"
            /\ width' = 0
            /\ swapChain' = Recreate(swapChain, width)
            /\ wRet' = Returned(caller, IF caller = "beginFrame"
                                        THEN "nullopt" ELSE "false")
            /\ calls' = calls \o AtTargetSize(swapChain, width)
                              \o <<"recreate">>
    /\ UNCHANGED <<framesInFlight, windowAlive, windowDevice,
                   deviceDestructionCallbackId, inFlightFences,
                   imageAvailableSemaphores, renderFinishedSemaphores,
                   currentFrameIndex, currentImageIndex, frame, submitted,
                   devvars, inFlight, fbSize, useAfterFree, dvars, gvars, svars,
                   scRet, deviceLost, mutex>>

\* recreateSwapChain() entered from a frame call made by a consumer other than
\* SimpleRenderer.
RecreateWaitEvents == WindowRecreateWaitEvents /\ UNCHANGED rvars

\* std::optional<FrameInfo> Window::beginFrame(), up to the wait on the fence
WindowBeginFrame ==
    /\ Idle /\ windowAlive
    /\ IF ~windowDevice
       THEN /\ wRet' = Returned("beginFrame", "throw")
            /\ calls' = <<>>
            /\ UNCHANGED <<pc, useAfterFree>>
       ELSE IF IsMinimized(fbSize)
       THEN /\ wRet' = Returned("beginFrame", "nullopt")
            /\ calls' = <<>>
            /\ UNCHANGED <<pc, useAfterFree>>
       ELSE IF ~vkDevice
       THEN /\ useAfterFree' = TRUE
            /\ wRet' = Returned("beginFrame", "undefined")
            /\ UNCHANGED <<pc, calls>>
       ELSE /\ pc' = "beginFrame_wait"
            /\ wRet' = Returned("beginFrame", "pending")
            /\ calls' = <<"fenceWait">>
            /\ UNCHANGED useAfterFree
    /\ UNCHANGED <<framesInFlight, windowAlive, windowDevice,
                   deviceDestructionCallbackId, swapChain, inFlightFences,
                   imageAvailableSemaphores, renderFinishedSemaphores,
                   currentFrameIndex, currentImageIndex, framebufferResized,
                   caller, width, frame, submitted, devvars, inFlight, fbSize,
                   events, dvars, gvars, svars,
                   scRet, deviceLost, mutex>>

\* Window::beginFrame() called by a consumer other than SimpleRenderer.
BeginFrame == WindowBeginFrame /\ UNCHANGED rvars

\* Window::beginFrame() from the return of inFlightFences_[i]->wait() on
WindowBeginFrameAcquire ==
    /\ pc = "beginFrame_wait" /\ ~useAfterFree
    /\ FenceWait(inFlightFences, currentFrameIndex)
    /\ \E vk \in SurfaceResults(swapChain), imageIndex \in ImageIndices :
         IF vk = "VK_ERROR_OUT_OF_DATE_KHR"
         THEN /\ swapChain.generation < MaxGeneration
              /\ RecreateSwapChain("beginFrame",
                                   AcquireNextImage(swapChain, vk),
                                   calls \o <<"acquireNextImage">>)
              /\ UNCHANGED <<imageAvailableSemaphores, currentImageIndex,
                             frame, submitted>>
         ELSE /\ swapChain' = AcquireNextImage(swapChain, vk)
              /\ imageAvailableSemaphores' =
                     [imageAvailableSemaphores EXCEPT ![currentFrameIndex] = TRUE]
              /\ inFlightFences' = FenceReset(inFlightFences, currentFrameIndex)
              /\ currentImageIndex' = imageIndex
              /\ frame' = [valid |-> TRUE, frameIndex |-> currentFrameIndex,
                           imageIndex |-> imageIndex]
              /\ submitted' = FALSE
              /\ pc' = "idle"
              /\ wRet' = Returned("beginFrame", "frame")
              /\ calls' = calls \o <<"acquireNextImage", "fenceReset">>
              /\ UNCHANGED <<caller, width, inFlight>>
    /\ UNCHANGED <<framesInFlight, windowAlive, windowDevice,
                   deviceDestructionCallbackId, renderFinishedSemaphores,
                   currentFrameIndex, framebufferResized, devvars, fbSize,
                   events, useAfterFree, dvars, gvars, svars,
                   scRet, deviceLost, mutex>>

\* The rest of a Window::beginFrame() called by a consumer other than
\* SimpleRenderer.
BeginFrameAcquire == WindowBeginFrameAcquire /\ UNCHANGED rvars

\* The consumer's submission for the frame it holds: vkQueueSubmit waiting on
\* frame.imageAvailable, signaling frame.renderFinished and frame.inFlightFence.
\* A lost device accepts no submission.
Submit ==
    /\ Idle /\ windowAlive /\ windowDevice /\ vkDevice
    /\ frame.valid /\ ~submitted /\ ~deviceLost
    /\ inFlight' = Append(inFlight, frame.frameIndex)
    /\ imageAvailableSemaphores' =
           [imageAvailableSemaphores EXCEPT ![frame.frameIndex] = FALSE]
    /\ renderFinishedSemaphores' =
           [renderFinishedSemaphores EXCEPT ![frame.frameIndex] = TRUE]
    /\ submitted' = TRUE
    /\ UNCHANGED <<framesInFlight, windowAlive, windowDevice,
                   deviceDestructionCallbackId, swapChain, inFlightFences,
                   currentFrameIndex, currentImageIndex, framebufferResized,
                   pc, caller, width, frame, wRet, calls, devvars, fbSize,
                   events, useAfterFree, dvars, gvars, svars, cvars>>

\* bool Window::endFrame()
WindowEndFrame ==
    /\ Idle /\ windowAlive
    /\ frame.valid \/ ~windowDevice
    /\ IF ~windowDevice
       THEN /\ wRet' = Returned("endFrame", "throw")
            /\ calls' = <<>>
            /\ UNCHANGED <<swapChain, inFlightFences, renderFinishedSemaphores,
                           currentFrameIndex, framebufferResized, pc, caller,
                           width, frame, submitted, inFlight, useAfterFree>>
       ELSE IF ~vkDevice
       THEN /\ useAfterFree' = TRUE
            /\ wRet' = Returned("endFrame", "undefined")
            /\ UNCHANGED <<swapChain, inFlightFences, renderFinishedSemaphores,
                           currentFrameIndex, framebufferResized, pc, caller,
                           width, frame, submitted, inFlight, calls>>
       ELSE \E vk \in SurfaceResults(swapChain) :
              /\ renderFinishedSemaphores' =
                     [renderFinishedSemaphores EXCEPT ![currentFrameIndex] = FALSE]
              /\ currentFrameIndex' = Advance(currentFrameIndex)
              /\ frame' = NoFrame
              /\ submitted' = FALSE
              /\ UNCHANGED useAfterFree
              /\ IF Invalidated(vk, framebufferResized)
                 THEN /\ swapChain.generation < MaxGeneration
                      /\ framebufferResized' = FALSE
                      /\ RecreateSwapChain("endFrame", Present(swapChain, vk),
                                           <<"present", vk>>)
                 ELSE /\ swapChain' = Present(swapChain, vk)
                      /\ wRet' = Returned("endFrame", "true")
                      /\ calls' = <<"present", vk>>
                      /\ UNCHANGED <<framebufferResized, pc, caller, width,
                                     inFlightFences, inFlight>>
    /\ UNCHANGED <<framesInFlight, windowAlive, windowDevice,
                   deviceDestructionCallbackId, imageAvailableSemaphores,
                   currentImageIndex, devvars, fbSize, events, dvars, gvars, svars,
                   scRet, deviceLost, mutex>>

\* Window::endFrame() called by a consumer other than SimpleRenderer.
EndFrame == WindowEndFrame /\ UNCHANGED rvars

\* void Window::pollEvents(): glfwPollEvents() dispatches the pending events;
\* glfwFramebufferSizeCallback sets framebufferResized_.
PollEvents ==
    /\ Idle /\ windowAlive
    /\ events # {}
    /\ events' = {}
    /\ framebufferResized' = (framebufferResized \/ "resize" \in events)
    /\ UNCHANGED <<framesInFlight, windowAlive, windowDevice,
                   deviceDestructionCallbackId, swapChain, inFlightFences,
                   imageAvailableSemaphores, renderFinishedSemaphores,
                   currentFrameIndex, currentImageIndex, pc, caller, width,
                   frame, submitted, wRet, calls, devvars, inFlight, fbSize,
                   useAfterFree, dvars, gvars, svars, cvars>>

(***************************************************************************)
(* LogicalDevice teardown and the other clients of its registry            *)
(***************************************************************************)
\* LogicalDevice::~LogicalDevice() -> LogicalDevice::cleanup()
DeviceDestroy ==
    /\ Idle /\ vkDevice
    /\ inFlight' = <<>>
    /\ inFlightFences' = FencesAfterIdle(inFlightFences, inFlight)
    /\ vkDevice' = FALSE
    /\ wRet' = Returned("LogicalDevice::cleanup", "void")
    /\ calls' = <<"waitIdle", "vkDestroyDevice">>
    /\ UNCHANGED <<framesInFlight, windowAlive, windowDevice,
                   deviceDestructionCallbackId, swapChain,
                   imageAvailableSemaphores, renderFinishedSemaphores,
                   currentFrameIndex, currentImageIndex, framebufferResized,
                   pc, caller, width, frame, submitted, destructionCallbacks,
                   nextCallbackId, callbacksInvoked, fbSize, events,
                   useAfterFree, dvars, gvars, svars, cvars>>

\* SimpleRenderer::create(): device()->onDestruction(...)
RegisterCallback ==
    /\ Idle /\ vkDevice
    /\ nextCallbackId <= MaxCallbackId
    /\ destructionCallbacks' =
           OnDestruction(destructionCallbacks, nextCallbackId, "renderer")
    /\ nextCallbackId' = nextCallbackId + 1
    /\ UNCHANGED <<winvars, vkDevice, callbacksInvoked, envvars, dvars, gvars, svars, cvars>>

\* SimpleRenderer::~SimpleRenderer(): dev->removeDestructionCallback(id)
UnregisterCallback ==
    /\ Idle /\ vkDevice
    /\ \E k \in 1..Len(destructionCallbacks) :
         /\ destructionCallbacks[k].owner = "renderer"
         /\ destructionCallbacks' =
                RemoveDestructionCallback(destructionCallbacks,
                                          destructionCallbacks[k].id)
    /\ UNCHANGED <<winvars, vkDevice, nextCallbackId, callbacksInvoked,
                   envvars, dvars, gvars, svars, cvars>>

(***************************************************************************)
(* The environment: the GPU and the window system                          *)
(***************************************************************************)
\* The GPU retires the oldest submission and signals its fence.
GpuRetire ==
    /\ inFlight # <<>> /\ ~useAfterFree
    /\ inFlight' = Tail(inFlight)
    /\ inFlightFences' = [inFlightFences EXCEPT ![Head(inFlight)] = TRUE]
    /\ UNCHANGED <<framesInFlight, windowAlive, windowDevice,
                   deviceDestructionCallbackId, swapChain,
                   imageAvailableSemaphores, renderFinishedSemaphores,
                   currentFrameIndex, currentImageIndex, framebufferResized,
                   pc, caller, width, frame, submitted, wRet, calls, devvars,
                   fbSize, events, useAfterFree, dvars, gvars, svars, cvars>>

\* The window system resizes the framebuffer (to 0: minimizes the window).
Resize ==
    /\ windowAlive /\ ~useAfterFree
    /\ \E size \in 0..MaxSize :
         /\ size # fbSize
         /\ fbSize' = size
    /\ events' = events \cup {"resize"}
    /\ UNCHANGED <<winvars, devvars, inFlight, useAfterFree, dvars, gvars, svars, cvars>>

\* Any other window event (key, mouse, focus).
InputEvent ==
    /\ windowAlive /\ ~useAfterFree
    /\ "input" \notin events
    /\ events' = events \cup {"input"}
    /\ UNCHANGED <<winvars, devvars, inFlight, fbSize, useAfterFree, dvars, gvars, svars, cvars>>

\* The frame loop of a window whose device outlives it.
NextWindow ==
    \/ BindDevice
    \/ ReleaseDeviceResources
    \/ WindowDestroy
    \/ BeginFrame
    \/ BeginFrameAcquire
    \/ RecreateWaitEvents
    \/ Submit
    \/ EndFrame
    \/ PollEvents
    \/ GpuRetire
    \/ Resize
    \/ InputEvent

Spec == Init /\ [][NextWindow]_vars

\* Teardown in every order: the device, the window and the other clients of
\* the registry, with frames in flight, on a surface that does not change.
NextTeardown ==
    \/ BindDevice
    \/ ReleaseDeviceResources
    \/ WindowDestroy
    \/ BeginFrame
    \/ BeginFrameAcquire
    \/ Submit
    \/ EndFrame
    \/ GpuRetire
    \/ DeviceDestroy
    \/ RegisterCallback
    \/ UnregisterCallback

SpecTeardown == Init /\ [][NextTeardown]_vars

\* The disposer on its own: the window stays as constructed, with one slot.
InitDisposer == Init /\ framesInFlight = 1 /\ fbSize = 1

SpecDisposer == InitDisposer /\ [][NextDisposer]_vars

SpecThreads == InitDisposer /\ [][NextThreads]_vars

\* dispose() of a resource whose deleter returns normally, ready at once or
\* after one frame.
DisposeResource == \E k \in {0, 1} : Enqueue("ok", k, MaxQueue)

\* A queue of up to MaxQueue resources, emptied by tryDisposeOne() and
\* disposeReady().
NextOrder ==
    \/ DisposeResource
    \/ ProcessFrame
    \/ TryDisposeOne
    \/ DisposeReady

SpecOrder == InitDisposer /\ [][NextOrder]_vars

\* The queue of the disposer under the calls that enqueue, count down, remove
\* one entry and count, made from one thread.
NextQueue ==
    \/ DisposeAny
    \/ ProcessFrame
    \/ TryDisposeOne
    \/ ThreadCount

SpecQueue == InitDisposer /\ [][NextQueue]_vars

(***************************************************************************)
(* GameLoop with its default configuration: no listeners, so that update,  *)
(* render and frame end do nothing; gcInterval_ and gcTimeBudget_ as       *)
(* initialised in game_loop.hpp.                                           *)
(***************************************************************************)
\* int gcInterval_ = 60;
GcInterval == 60

\* if (gcInterval_ > 0 && ++gcCounter_ >= gcInterval_)
GcDue(counter) == GcInterval > 0 /\ counter + 1 >= GcInterval

\* The loop of onGarbageCollect() on queue p, stopped by the time budget after
\* at most n calls of tryDisposeOne(): while (true) { if (elapsed >=
\* budgetDuration) break; if (!disposer_->tryDisposeOne()) break; }
RECURSIVE BudgetLoop(_, _, _, _, _)
BudgetLoop(p, n, inv, drp, log) ==
    IF n = 0
    THEN [pending |-> p, invoked |-> inv, dropped |-> drp, calls |-> log,
          ret |-> IF log = <<>>
                  THEN [op |-> "processFrame", val |-> "void"]
                  ELSE [op |-> "tryDisposeOne", val |-> "true"]]
    ELSE LET r == TryOne(p)
         IN IF r.val = "true"
            THEN BudgetLoop(r.pending, n - 1, inv \o r.invoked,
                            drp \cup r.dropped, Append(log, "tryDisposeOne"))
            ELSE [pending |-> r.pending, invoked |-> inv \o r.invoked,
                  dropped |-> drp \cup r.dropped,
                  calls |-> Append(log, "tryDisposeOne"),
                  ret |-> [op |-> "tryDisposeOne", val |-> r.val]]

\* void GameLoop::run(), up to the loop
Run ==
    /\ ~isRunning
    /\ isRunning' = TRUE
    /\ inRun' = TRUE
    /\ gcCalls' = <<>>
    /\ UNCHANGED <<gcCounter, dvars, wvars, svars, cvars>>

\* One iteration of the loop of run(): runFrame(dt).  onProcessEvents() polls
\* the window; onGarbageCollect() runs when the counter reaches the interval:
\* processFrame(), then tryDisposeOne() until it returns false or the time
\* budget is used up.  An exception that is not a std::exception passes every
\* handler of runFrame() and run() and leaves run() with isRunning_ still set.
RunFrame ==
    /\ inRun /\ Idle /\ windowAlive
    /\ events' = {}
    /\ framebufferResized' = (framebufferResized \/ "resize" \in events)
    /\ IF GcDue(gcCounter)
       THEN /\ gcCounter' = 0
            /\ \E budget \in 0..MaxActions :
                 LET r == BudgetLoop(FramePassed(pending), budget, <<>>, {},
                                     <<>>)
                 IN /\ pending' = r.pending
                    /\ executed' = executed \o
                                   Invocations(r.invoked, "onGarbageCollect")
                    /\ dropped' = dropped \cup r.dropped
                    /\ dRet' = r.ret
                    /\ gcCalls' = <<"processFrame">> \o r.calls
                    /\ inRun' = (r.ret.val # "exception")
       ELSE /\ gcCounter' = IF GcInterval > 0 THEN gcCounter + 1 ELSE gcCounter
            /\ gcCalls' = <<>>
            /\ UNCHANGED <<pending, executed, dropped, dRet, inRun>>
    /\ UNCHANGED <<nextAction, threads, isRunning, framesInFlight, windowAlive,
                   windowDevice, deviceDestructionCallbackId, swapChain,
                   inFlightFences, imageAvailableSemaphores,
                   renderFinishedSemaphores, currentFrameIndex,
                   currentImageIndex, pc, caller, width, frame, submitted,
                   wRet, calls, devvars, inFlight, fbSize, useAfterFree,
                   svars, cvars>>

\* shouldQuit() ends the loop: isRunning_ = false;
Quit ==
    /\ inRun
    /\ inRun' = FALSE
    /\ isRunning' = FALSE
    /\ UNCHANGED <<gcCounter, gcCalls, dvars, wvars, svars, cvars>>

\* The application as the loop runs: it hands resources to the disposer and
\* the platform queues input events.
NextGameLoop ==
    \/ Run
    \/ RunFrame
    \/ Quit
    \/ DisposeAny
    \/ InputEvent

SpecGameLoop == InitDisposer /\ [][NextGameLoop]_vars

(***************************************************************************)
(* FrameSyncObjects, the consumer that submits with its fences, the GPU    *)
(***************************************************************************)
\* uint32_t frameCount() const { return imageAvailable_.size(); }
FrameCount(fs) == Len(fs.inFlight)

\* FrameSyncObjects::FrameSyncObjects(device, frameCount): frameCount fences,
\* each Fence(device, true), "Start signaled"; currentFrame_ = 0.
FrameSyncObjects(frameCount) ==
    [exists |-> TRUE, inFlight |-> [i \in 1..frameCount |-> TRUE],
     currentFrame |-> 0]

\* inFlight_[currentFrame_], imageAvailable_[currentFrame_]: defined when the
\* index is inside the vector.
SlotDefined(fs) == fs.currentFrame < FrameCount(fs)

SyncLive == frameSync.exists /\ ~syncUndefined

Construct ==
    /\ ~frameSync.exists
    /\ \E frameCount \in 0..MaxFrames :
         frameSync' = FrameSyncObjects(frameCount)
    /\ advances' = 0
    /\ syncRet' = "FrameSyncObjects"
    /\ UNCHANGED <<syncBusy, syncUndefined, dvars, wvars, gvars, cvars>>

\* ~FrameSyncObjects(), once the GPU has retired what was submitted with its
\* fences.
Destroy ==
    /\ SyncLive /\ syncBusy = {}
    /\ frameSync' = NoFrameSync
    /\ advances' = 0
    /\ syncRet' = "~FrameSyncObjects"
    /\ UNCHANGED <<syncBusy, syncUndefined, dvars, wvars, gvars, cvars>>

\* void FrameSyncObjects::advanceFrame():
\* currentFrame_ = (currentFrame_ + 1) % frameCount();
\* the remainder by zero is undefined.
AdvanceFrame ==
    /\ SyncLive /\ advances < MaxAdvances
    /\ IF FrameCount(frameSync) = 0
       THEN /\ syncUndefined' = TRUE
            /\ UNCHANGED frameSync
       ELSE /\ frameSync' = [frameSync EXCEPT !.currentFrame =
                                (@ + 1) % FrameCount(frameSync)]
            /\ UNCHANGED syncUndefined
    /\ advances' = advances + 1
    /\ syncRet' = "advanceFrame"
    /\ UNCHANGED <<syncBusy, dvars, wvars, gvars, cvars>>

\* void FrameSyncObjects::waitForFrame(): inFlight_[currentFrame_]->wait()
\* returns once the fence is signaled.
WaitForFrame ==
    /\ SyncLive
    /\ IF SlotDefined(frameSync)
       THEN /\ frameSync.inFlight[frameSync.currentFrame + 1]
            /\ UNCHANGED syncUndefined
       ELSE syncUndefined' = TRUE
    /\ syncRet' = "waitForFrame"
    /\ UNCHANGED <<frameSync, syncBusy, advances, dvars, wvars, gvars, cvars>>

\* void FrameSyncObjects::resetFrame(): inFlight_[currentFrame_]->reset(),
\* on a fence no submission is about to signal.
ResetFrame ==
    /\ SyncLive /\ frameSync.currentFrame \notin syncBusy
    /\ IF SlotDefined(frameSync)
       THEN /\ frameSync' = [frameSync EXCEPT
                                !.inFlight[frameSync.currentFrame + 1] = FALSE]
            /\ UNCHANGED syncUndefined
       ELSE /\ syncUndefined' = TRUE
            /\ UNCHANGED frameSync
    /\ syncRet' = "resetFrame"
    /\ UNCHANGED <<syncBusy, advances, dvars, wvars, gvars, cvars>>

\* The consumer submits work that signals inFlight() of the current slot.
SyncSubmit ==
    /\ SyncLive /\ SlotDefined(frameSync)
    /\ ~frameSync.inFlight[frameSync.currentFrame + 1]
    /\ frameSync.currentFrame \notin syncBusy
    /\ syncBusy' = syncBusy \cup {frameSync.currentFrame}
    /\ syncRet' = "submit"
    /\ UNCHANGED <<frameSync, advances, syncUndefined, dvars, wvars, gvars, cvars>>

\* The GPU retires a submission and signals its fence.
SyncRetire ==
    /\ SyncLive
    /\ \E slot \in syncBusy :
         /\ syncBusy' = syncBusy \ {slot}
         /\ frameSync' = [frameSync EXCEPT !.inFlight[slot + 1] = TRUE]
    /\ UNCHANGED <<advances, syncRet, syncUndefined, dvars, wvars, gvars, cvars>>

NextFrameSync ==
    \/ Construct
    \/ Destroy
    \/ AdvanceFrame
    \/ WaitForFrame
    \/ ResetFrame
    \/ SyncSubmit
    \/ SyncRetire

SpecFrameSync == InitDisposer /\ [][NextFrameSync]_vars

\* A program that drives the slots of a Window and its own FrameSyncObjects
\* on a surface that does not change.
NextSlots ==
    \/ BindDevice
    \/ ReleaseDeviceResources
    \/ BeginFrame
    \/ BeginFrameAcquire
    \/ Submit
    \/ EndFrame
    \/ GpuRetire
    \/ Construct
    \/ Destroy
    \/ AdvanceFrame
    \/ WaitForFrame
    \/ ResetFrame
    \/ SyncSubmit
    \/ SyncRetire

InitSlots == Init /\ fbSize = 1

SpecSlots == InitSlots /\ [][NextSlots]_vars

(***************************************************************************)
(* SwapChain called directly: build, acquire, present, recreate, on a      *)
(* surface the window system resizes.                                      *)
(***************************************************************************)
\* What vkCreateSwapchainKHR can report to recreate().
CreateResults == {"VK_SUCCESS", "VK_ERROR_OUT_OF_DEVICE_MEMORY"}

\* SwapChain::Builder::build()
SwapChainBuild ==
    /\ ~swapChain.exists /\ fbSize # 0
    /\ swapChain' = CreateSwapChain(fbSize)
    /\ scRet' = [op |-> "build", vk |-> "VK_SUCCESS", imageIndex |-> 0]
    /\ UNCHANGED <<deviceLost, mutex, rvars, dvars, gvars, svars, devvars, envvars,
                   framesInFlight, windowAlive, windowDevice, deviceDestructionCallbackId,
                   inFlightFences, imageAvailableSemaphores,
                   renderFinishedSemaphores, currentFrameIndex,
                   currentImageIndex, framebufferResized, pc, caller, width,
                   frame, submitted, wRet, calls>>

\* AcquireResult SwapChain::acquireNextImage(signalSemaphore)
SwapChainAcquire ==
    /\ swapChain.exists
    /\ \E vk \in SurfaceResults(swapChain), imageIndex \in ImageIndices :
         /\ swapChain' = AcquireNextImage(swapChain, vk)
         /\ scRet' = [op |-> "acquireNextImage", vk |-> vk,
                      imageIndex |-> IF vk = "VK_ERROR_OUT_OF_DATE_KHR"
                                     THEN 0 ELSE imageIndex]
    /\ UNCHANGED <<deviceLost, mutex, rvars, dvars, gvars, svars, devvars, envvars,
                   framesInFlight, windowAlive, windowDevice, deviceDestructionCallbackId,
                   inFlightFences, imageAvailableSemaphores,
                   renderFinishedSemaphores, currentFrameIndex,
                   currentImageIndex, framebufferResized, pc, caller, width,
                   frame, submitted, wRet, calls>>

\* VkResult SwapChain::present(queue, imageIndex, waitSemaphore) of the image
\* last acquired
SwapChainPresent ==
    /\ swapChain.exists
    /\ scRet.op = "acquireNextImage" /\ scRet.vk # "VK_ERROR_OUT_OF_DATE_KHR"
    /\ \E vk \in SurfaceResults(swapChain) :
         /\ swapChain' = Present(swapChain, vk)
         /\ scRet' = [op |-> "present", vk |-> vk,
                      imageIndex |-> scRet.imageIndex]
    /\ UNCHANGED <<deviceLost, mutex, rvars, dvars, gvars, svars, devvars, envvars,
                   framesInFlight, windowAlive, windowDevice, deviceDestructionCallbackId,
                   inFlightFences, imageAvailableSemaphores,
                   renderFinishedSemaphores, currentFrameIndex,
                   currentImageIndex, framebufferResized, pc, caller, width,
                   frame, submitted, wRet, calls>>

\* void SwapChain::recreate(width, height) with the size of the framebuffer:
\* it throws, with nothing changed, when vkCreateSwapchainKHR fails.
SwapChainRecreate ==
    /\ swapChain.exists /\ fbSize # 0
    /\ swapChain.generation < MaxGeneration
    /\ \E vk \in CreateResults :
         /\ swapChain' = IF vk = "VK_SUCCESS"
                         THEN Recreate(swapChain, fbSize) ELSE swapChain
         /\ scRet' = [op |-> "recreate", vk |-> vk, imageIndex |-> 0]
    /\ UNCHANGED <<deviceLost, mutex, rvars, dvars, gvars, svars, devvars, envvars,
                   framesInFlight, windowAlive, windowDevice, deviceDestructionCallbackId,
                   inFlightFences, imageAvailableSemaphores,
                   renderFinishedSemaphores, currentFrameIndex,
                   currentImageIndex, framebufferResized, pc, caller, width,
                   frame, submitted, wRet, calls>>

NextSwapChain ==
    \/ SwapChainBuild
    \/ SwapChainAcquire
    \/ SwapChainPresent
    \/ SwapChainRecreate
    \/ Resize

SpecSwapChain == InitDisposer /\ [][NextSwapChain]_vars

(***************************************************************************)
(* DeferredDisposer with deleters that call the disposer: the mutex is     *)
(* explicit, a block under std::lock_guard is one step that needs the      *)
(* mutex free, and a deleter runs from ActionBegin to ActionEnd.  The      *)
(* deleters return normally; a disposal started from inside a deleter runs *)
(* its own deleter without further calls.                                  *)
(***************************************************************************)
\* A lock that is still held by thread t when the block has been left.
StillLocked(t) == t

\* The mutex when thread t leaves a block { std::lock_guard lock(mutex_); ... }
AfterLockedBlock(t) == "free"

\* The calls that run deleters.
DisposingCalls == {"tryDisposeOne", "disposeReady", "disposeAll"}

\* The position of a thread inside the deleter invoked by the call op.
ActionOf(op) ==
    CASE op = "tryDisposeOne" -> "tryDisposeOne_action"
      [] op = "disposeReady" -> "disposeReady_action"
      [] op = "disposeAll" -> "disposeAll_action"

\* Thread t is inside a deleter.
InAction(t) == \E op \in DisposingCalls : threads[t].pc = ActionOf(op)

\* The call whose deleter thread t is in.
CallOf(t) == CHOOSE op \in DisposingCalls : threads[t].pc = ActionOf(op)

\* Some thread is inside a deleter invoked by disposeAll().
InsideDisposeAll ==
    \E t \in Threads : threads[t].pc = ActionOf("disposeAll")

\* The locked block of tryDisposeOne(), called directly or from the loop of
\* disposeReady()
MutexTake ==
    /\ mutex = "free"
    /\ \E t \in Threads, op \in {"tryDisposeOne", "disposeReady"} :
         /\ \/ threads[t].pc = "idle"
            \/ /\ op = "disposeReady"
               /\ threads[t].pc = "disposeReady" /\ threads[t].held = <<>>
         /\ LockedTake(t, op)
         /\ mutex' = AfterLockedBlock(t)
    /\ UNCHANGED <<nextAction, executed, dropped, wvars, gvars, svars, scRet,
                   deviceLost, rvars>>

\* The locked block of disposeAll(): toDispose = std::move(pending_);
\* pending_.clear();
MutexTakeAll ==
    /\ mutex = "free"
    /\ \E t \in Threads :
         /\ threads[t].pc = "idle"
         /\ threads' = [threads EXCEPT
                           ![t] = [pc |-> "disposeAll", held |-> pending]]
         /\ mutex' = AfterLockedBlock(t)
    /\ pending' = <<>>
    /\ UNCHANGED <<nextAction, executed, dropped, dRet, wvars, gvars, svars,
                   scRet, deviceLost, rvars>>

\* deleter() / disposal.deleter() is entered.
ActionBegin ==
    /\ \E t \in Threads :
         /\ threads[t].pc \in DisposingCalls
         /\ threads[t].held # <<>>
         /\ threads[t].held[1].deleter = "ok"
         /\ threads' = [threads EXCEPT ![t].pc = ActionOf(@)]
    /\ UNCHANGED <<pending, nextAction, executed, dropped, dRet, wvars, gvars,
                   svars, cvars>>

\* The running deleter calls dispose(): lock, push_back, unlock.
NestedDispose ==
    /\ mutex = "free"
    /\ \E t \in Threads : InAction(t)
    /\ \E k \in {0, 1} : Enqueue("ok", k, MaxActions)

\* The running deleter calls pendingCount().
NestedCount ==
    /\ mutex = "free"
    /\ \E t \in Threads : InAction(t)
    /\ dRet' = [op |-> "pendingCount", val |-> ToString(Len(pending))]
    /\ UNCHANGED <<pending, nextAction, executed, dropped, threads, wvars,
                   gvars, svars, cvars>>

\* The running deleter calls tryDisposeOne().
NestedTryDisposeOne ==
    /\ mutex = "free"
    /\ \E t \in Threads : InAction(t)
    /\ TryDisposeOne

\* A thread outside every disposer call calls dispose() or processFrame().
MutexDispose ==
    /\ mutex = "free"
    /\ SomeThreadIdle
    /\ \E k \in {0, 1} : Enqueue("ok", k, MaxActions)

MutexProcessFrame == mutex = "free" /\ ThreadProcessFrame

\* The deleter returns: tryDisposeOne() returns true, disposeReady() goes
\* round its loop, disposeAll() goes on to the next entry of toDispose.
ActionEnd ==
    /\ \E t \in Threads :
         /\ InAction(t)
         /\ LET op == CallOf(t)
                e == threads[t].held[1]
            IN /\ executed' = Append(executed, Invocation(e, op))
               /\ IF op = "tryDisposeOne"
                  THEN /\ dRet' = [op |-> op, val |-> "true"]
                       /\ threads' = [threads EXCEPT ![t] = IdleThread]
                  ELSE /\ threads' = [threads EXCEPT
                                         ![t] = [pc |-> op,
                                                 held |-> Tail(threads[t].held)]]
                       /\ UNCHANGED dRet
    /\ UNCHANGED <<pending, nextAction, dropped, wvars, gvars, svars, cvars>>

\* disposeAll() returns after the last entry of toDispose.
DisposeAllReturn ==
    /\ \E t \in Threads :
         /\ threads[t].pc = "disposeAll" /\ threads[t].held = <<>>
         /\ threads' = [threads EXCEPT ![t] = IdleThread]
    /\ dRet' = [op |-> "disposeAll", val |-> "void"]
    /\ UNCHANGED <<pending, nextAction, executed, dropped, wvars, gvars,
                   svars, cvars>>

NextReentrant ==
    \/ MutexDispose
    \/ MutexProcessFrame
    \/ MutexTake
    \/ MutexTakeAll
    \/ ActionBegin
    \/ NestedDispose
    \/ NestedCount
    \/ NestedTryDisposeOne
    \/ ActionEnd
    \/ DisposeAllReturn

SpecReentrant == InitDisposer /\ [][NextReentrant]_vars

(***************************************************************************)
(* The frame calls of Window under a fair GPU                              *)
(***************************************************************************)
\* Every sequence of frame calls on a surface that does not change: the
\* consumer may submit for the frame it holds or not.
NextFrames ==
    \/ BindDevice
    \/ ReleaseDeviceResources
    \/ BeginFrame
    \/ BeginFrameAcquire
    \/ Submit
    \/ EndFrame
    \/ GpuRetire

\* The GPU retires every submission, and a beginFrame() whose fence wait can
\* return goes on (vkWaitForFences returns once the fence is signaled).
FairGpu == WF_vars(GpuRetire) /\ WF_vars(BeginFrameAcquire)

SpecFairGpu == InitSlots /\ [][NextFrames]_vars /\ FairGpu

(***************************************************************************)
(* Window::bindDevice() when the creation of the device resources fails    *)
(***************************************************************************)
\* The calls of bindDevice() that create device resources and can throw.
CreationStages == {"createSwapChain", "createSyncObjects"}

\* device_ is set while the swap chain or the gates are missing.
HalfBound == windowDevice /\ (~swapChain.exists \/ inFlightFences = Cleared)

\* void Window::bindDevice(device) when createSwapChain() throws, or when
\* createSyncObjects() throws at its first Semaphore: device_ and the
\* destruction callback are set before either is called and nothing undoes
\* them.
BindDeviceFails ==
    /\ Idle /\ windowAlive /\ vkDevice
    /\ ~AlreadyBound(windowDevice)
    /\ nextCallbackId <= MaxCallbackId
    /\ \E stage \in CreationStages :
         /\ swapChain' = IF stage = "createSwapChain"
                         THEN swapChain ELSE CreateSwapChain(fbSize)
         /\ calls' = IF stage = "createSwapChain"
                     THEN <<"onDestruction", "createSwapChain">>
                     ELSE <<"onDestruction", "createSwapChain",
                            "createSyncObjects">>
    /\ windowDevice' = TRUE
    /\ deviceDestructionCallbackId' = nextCallbackId
    /\ destructionCallbacks' =
           OnDestruction(destructionCallbacks, nextCallbackId, "window")
    /\ nextCallbackId' = nextCallbackId + 1
    /\ wRet' = Returned("bindDevice", "throw")
    /\ UNCHANGED <<framesInFlight, windowAlive, inFlightFences,
                   imageAvailableSemaphores, renderFinishedSemaphores,
                   currentFrameIndex, currentImageIndex, framebufferResized,
                   pc, caller, width, frame, submitted, vkDevice,
                   callbacksInvoked, envvars, dvars, gvars, svars, cvars>>

\* The frame calls of Window.
FrameCalls == {"beginFrame", "endFrame"}

\* beginFrame() / endFrame() after a failed bindDevice(): device_ is set, so
\* neither throws; beginFrame() returns nullopt on a minimized window;
\* otherwise the call indexes the empty vector of fences or semaphores, or
\* dereferences the null swap chain, which is undefined.
FrameCallHalfBound ==
    /\ Idle /\ windowAlive /\ HalfBound
    /\ \E op \in FrameCalls :
         IF op = "beginFrame" /\ IsMinimized(fbSize)
         THEN /\ wRet' = Returned(op, "nullopt")
              /\ UNCHANGED useAfterFree
         ELSE /\ wRet' = Returned(op, "undefined")
              /\ useAfterFree' = TRUE
    /\ calls' = <<>>
    /\ UNCHANGED <<framesInFlight, windowAlive, windowDevice,
                   deviceDestructionCallbackId, swapChain, inFlightFences,
                   imageAvailableSemaphores, renderFinishedSemaphores,
                   currentFrameIndex, currentImageIndex, framebufferResized,
                   pc, caller, width, frame, submitted, devvars, inFlight,
                   fbSize, events, dvars, gvars, svars, cvars>>

\* Binding, with creations that can fail, and releasing a window that the
\* window system resizes.
NextBind ==
    \/ BindDevice
    \/ BindDeviceFails
    \/ ReleaseDeviceResources
    \/ FrameCallHalfBound
    \/ Resize
    \/ PollEvents

SpecBind == Init /\ [][NextBind]_vars

(***************************************************************************)
(* SimpleRenderer                                                          *)
(***************************************************************************)
\* SwapChainFramebuffers(swapChain, ...): one framebuffer per image view of
\* the swap chain, with the swap chain's extent.
CreateFramebuffers(sc) ==
    [built |-> TRUE, generation |-> sc.generation, extent |-> sc.extent]

\* The slot of the following one.
FollowingSlot(info) == Advance(info.frameIndex)

\* The slot whose imageAvailable, renderFinished and inFlightFence the
\* FrameInfo carries.
SlotOf(info) == info.frameIndex

\* SimpleRenderer::create(window): the rendering resources are built for the
\* window's swap chain and a destruction callback is registered.
RendererCreate ==
    /\ Idle /\ windowAlive /\ windowDevice /\ vkDevice
    /\ ~renderer /\ rpc = "idle"
    /\ nextCallbackId <= MaxCallbackId
    /\ renderer' = TRUE
    /\ framebuffers' = CreateFramebuffers(swapChain)
    /\ destructionCallbacks' =
           OnDestruction(destructionCallbacks, nextCallbackId, "renderer")
    /\ nextCallbackId' = nextCallbackId + 1
    /\ UNCHANGED <<frameInProgress, currentFrameInfo, rpc, renderPass, scRet,
                   deviceLost, mutex, winvars, vkDevice, callbacksInvoked, envvars,
                   dvars, gvars, svars>>

\* FrameBeginResult SimpleRenderer::beginFrame(): window_->beginFrame() up to
\* the wait on the fence.  A window call that returns at once returns nullopt
\* (result.resized = true) or throws.
RendererBeginFrame ==
    /\ renderer /\ rpc = "idle"
    /\ WindowBeginFrame
    /\ rpc' = IF pc' = "idle" THEN "idle" ELSE "beginFrame"
    /\ UNCHANGED <<renderer, framebuffers, frameInProgress, currentFrameInfo,
                   renderPass>>

\* SimpleRenderer::beginFrame(): the rest of window_->beginFrame().
RendererBeginFrameAcquire ==
    /\ rpc = "beginFrame"
    /\ WindowBeginFrameAcquire
    /\ rpc' = IF pc' # "idle" THEN "beginFrame"
              ELSE IF wRet'.val = "frame" THEN "beginFrame_frame"
              ELSE "idle"
    /\ UNCHANGED <<renderer, framebuffers, frameInProgress, currentFrameInfo,
                   renderPass>>

\* recreateSwapChain() inside the window_->beginFrame() or window_->endFrame()
\* of a SimpleRenderer call: when it returns, beginFrame() reports
\* result.resized and endFrame() goes on to clear the frame.
RendererRecreateWaitEvents ==
    /\ rpc \in {"beginFrame", "endFrame"}
    /\ WindowRecreateWaitEvents
    /\ IF pc' = "idle"
       THEN /\ rpc' = "idle"
            /\ frameInProgress' = (frameInProgress /\ rpc = "beginFrame")
            /\ currentFrameInfo' =
                   IF rpc = "beginFrame" THEN currentFrameInfo ELSE NoFrame
       ELSE UNCHANGED <<rpc, frameInProgress, currentFrameInfo>>
    /\ UNCHANGED <<renderer, framebuffers, renderPass>>

\* SimpleRenderer::beginFrame() once window_->beginFrame() has returned a
\* frame: the frame is kept, the resources are recreated
\* (recreateResources(): device()->waitIdle(), createFramebuffers()) if the
\* extent of the framebuffers differs from the window's, and the slot's
\* command buffer is reset and begun.
RendererTakeFrame ==
    /\ renderer /\ rpc = "beginFrame_frame" /\ Idle
    /\ currentFrameInfo' = frame
    /\ IF framebuffers.built /\ framebuffers.extent # swapChain.extent
       THEN /\ inFlight' = <<>>
            /\ inFlightFences' = FencesAfterIdle(inFlightFences, inFlight)
            /\ framebuffers' = CreateFramebuffers(swapChain)
       ELSE UNCHANGED <<inFlight, inFlightFences, framebuffers>>
    /\ renderPass' = NoRenderPass
    /\ frameInProgress' = TRUE
    /\ rpc' = "idle"
    /\ UNCHANGED <<renderer, scRet, deviceLost, mutex, framesInFlight, windowAlive,
                   windowDevice, deviceDestructionCallbackId, swapChain,
                   imageAvailableSemaphores, renderFinishedSemaphores,
                   currentFrameIndex, currentImageIndex, framebufferResized,
                   pc, caller, width, frame, submitted, wRet, calls, devvars,
                   fbSize, events, useAfterFree, dvars, gvars, svars>>

\* void SimpleRenderer::beginRenderPass(): records a render pass on
\* (*framebuffers_)[currentImageIndex_]; returns at once without a frame in
\* progress.
RendererBeginRenderPass ==
    /\ renderer /\ rpc = "idle" /\ Idle
    /\ frameInProgress /\ currentFrameInfo.valid
    /\ framebuffers.built
    /\ renderPass' = [recorded |-> TRUE,
                      framebuffer |-> framebuffers.generation,
                      swapChain |-> swapChain.generation]
    /\ UNCHANGED <<renderer, framebuffers, frameInProgress, currentFrameInfo,
                   rpc, scRet, deviceLost, mutex, dvars, wvars, gvars, svars>>

\* bool SimpleRenderer::endFrame() up to the call of window_->endFrame():
\* vkQueueSubmit waiting on currentFrameInfo_->imageAvailable, signaling
\* currentFrameInfo_->renderFinished and currentFrameInfo_->inFlightFence.
\* Without a frame in progress it returns false at once.
RendererEndFrame ==
    /\ renderer /\ rpc = "idle" /\ Idle /\ vkDevice /\ ~deviceLost
    /\ frameInProgress /\ currentFrameInfo.valid
    /\ inFlight' = Append(inFlight, SlotOf(currentFrameInfo))
    /\ imageAvailableSemaphores' =
           [imageAvailableSemaphores EXCEPT ![SlotOf(currentFrameInfo)] = FALSE]
    /\ renderFinishedSemaphores' =
           [renderFinishedSemaphores EXCEPT ![SlotOf(currentFrameInfo)] = TRUE]
    /\ submitted' = TRUE
    /\ rpc' = "endFrame"
    /\ UNCHANGED <<renderer, framebuffers, frameInProgress, currentFrameInfo,
                   renderPass, scRet, deviceLost, mutex, framesInFlight, windowAlive,
                   windowDevice, deviceDestructionCallbackId, swapChain,
                   inFlightFences, currentFrameIndex, currentImageIndex,
                   framebufferResized, pc, caller, width, frame, wRet, calls,
                   devvars, fbSize, events, useAfterFree, dvars, gvars, svars>>

\* SimpleRenderer::endFrame(): presented = window_->endFrame();
\* frameInProgress_ = false; currentFrameInfo_.reset().  An exception of the
\* window call leaves the frame in progress.
RendererPresent ==
    /\ rpc = "endFrame" /\ pc = "idle"
    /\ WindowEndFrame
    /\ IF pc' # "idle"
       THEN UNCHANGED <<rpc, frameInProgress, currentFrameInfo>>
       ELSE /\ rpc' = "idle"
            /\ frameInProgress' = (wRet'.val \in {"throw", "undefined"})
            /\ currentFrameInfo' =
                   IF wRet'.val \in {"throw", "undefined"}
                   THEN currentFrameInfo ELSE NoFrame
    /\ UNCHANGED <<renderer, framebuffers, renderPass>>

\* The application binds the window and polls its events between the calls
\* of the renderer.
AppBindDevice == rpc = "idle" /\ BindDevice

AppPollEvents == rpc = "idle" /\ PollEvents

\* An application that renders through SimpleRenderer while the window
\* system resizes the window.
NextRenderer ==
    \/ AppBindDevice
    \/ AppPollEvents
    \/ RendererCreate
    \/ RendererBeginFrame
    \/ RendererBeginFrameAcquire
    \/ RendererRecreateWaitEvents
    \/ RendererTakeFrame
    \/ RendererBeginRenderPass
    \/ RendererEndFrame
    \/ RendererPresent
    \/ GpuRetire
    \/ Resize

SpecRenderer == InitSlots /\ [][NextRenderer]_vars

(***************************************************************************)
(* The frame calls of Window on a device that is lost                      *)
(***************************************************************************)
\* The GPU hangs or is removed: from now on vkWaitForFences, vkQueuePresentKHR
\* and the like report VK_ERROR_DEVICE_LOST.
DeviceLost ==
    /\ windowDevice /\ vkDevice /\ ~deviceLost
    /\ deviceLost' = TRUE
    /\ UNCHANGED <<scRet, mutex, rvars, dvars, wvars, gvars, svars>>

\* What vkAcquireNextImageKHR can report once the device is lost.
LostAcquireResults == {"VK_SUCCESS", "VK_ERROR_DEVICE_LOST"}

\* Window::beginFrame() from the return of inFlightFences_[i]->wait() on, when
\* vkWaitForFences failed: Fence::wait() drops the VkResult, so beginFrame()
\* goes on to acquire.  acquireNextImage() throws on VK_ERROR_DEVICE_LOST;
\* when the acquire still succeeds the fence is reset and the frame handed
\* out.
BeginFrameAcquireLost ==
    /\ pc = "beginFrame_wait" /\ ~useAfterFree
    /\ deviceLost
    /\ \E vk \in LostAcquireResults, imageIndex \in ImageIndices :
         IF vk = "VK_ERROR_DEVICE_LOST"
         THEN /\ pc' = "idle"
              /\ wRet' = Returned("beginFrame", "throw")
              /\ calls' = <<"fenceWaitFailed", "acquireNextImage">>
              /\ UNCHANGED <<swapChain, imageAvailableSemaphores,
                             inFlightFences, currentImageIndex, frame,
                             submitted>>
         ELSE /\ swapChain' = AcquireNextImage(swapChain, vk)
              /\ imageAvailableSemaphores' =
                     [imageAvailableSemaphores EXCEPT ![currentFrameIndex] = TRUE]
              /\ inFlightFences' = FenceReset(inFlightFences, currentFrameIndex)
              /\ currentImageIndex' = imageIndex
              /\ frame' = [valid |-> TRUE, frameIndex |-> currentFrameIndex,
                           imageIndex |-> imageIndex]
              /\ submitted' = FALSE
              /\ pc' = "idle"
              /\ wRet' = Returned("beginFrame", "frame")
              /\ calls' = <<"fenceWaitFailed", "acquireNextImage",
                            "fenceReset">>
    /\ UNCHANGED <<framesInFlight, windowAlive, windowDevice,
                   deviceDestructionCallbackId, renderFinishedSemaphores,
                   currentFrameIndex, framebufferResized, caller, width,
                   devvars, envvars, dvars, gvars, svars, cvars>>

\* bool Window::endFrame() when vkQueuePresentKHR reports
\* VK_ERROR_DEVICE_LOST: the slot advances; with the resize flag up,
\* recreateSwapChain() runs and SwapChain::recreate() throws because
\* vkCreateSwapchainKHR fails on the lost device; otherwise
\* return result == VK_SUCCESS, that is, false.
EndFrameLost ==
    /\ Idle /\ windowAlive /\ windowDevice /\ vkDevice
    /\ frame.valid /\ deviceLost /\ ~ZeroSize(fbSize)
    /\ renderFinishedSemaphores' =
           [renderFinishedSemaphores EXCEPT ![currentFrameIndex] = FALSE]
    /\ currentFrameIndex' = Advance(currentFrameIndex)
    /\ frame' = NoFrame
    /\ submitted' = FALSE
    /\ swapChain' = Present(swapChain, "VK_ERROR_DEVICE_LOST")
    /\ framebufferResized' = FALSE
    /\ IF Invalidated("VK_ERROR_DEVICE_LOST", framebufferResized)
       THEN /\ wRet' = Returned("endFrame", "throw")
            /\ calls' = <<"present", "VK_ERROR_DEVICE_LOST", "waitIdle",
                          "recreateFailed">>
       ELSE /\ wRet' = Returned("endFrame", "false")
            /\ calls' = <<"present", "VK_ERROR_DEVICE_LOST">>
    /\ UNCHANGED <<framesInFlight, windowAlive, windowDevice,
                   deviceDestructionCallbackId, inFlightFences,
                   imageAvailableSemaphores, currentImageIndex, pc, caller,
                   width, devvars, envvars, dvars, gvars, svars, cvars>>

\* The frame loop on a surface that does not change, with a device that can
\* be lost.
NextFaults ==
    \/ BindDevice
    \/ BeginFrame
    \/ BeginFrameAcquire
    \/ Submit
    \/ EndFrame
    \/ GpuRetire
    \/ DeviceLost
    \/ BeginFrameAcquireLost
    \/ EndFrameLost

SpecFaults == InitSlots /\ [][NextFaults]_vars

(***************************************************************************)
(* Properties of DeferredDisposer                                          *)
(***************************************************************************)
\* Ids of the deleters invoked by the step.
NewlyInvoked ==
    {executed'[j].id : j \in (Len(executed) + 1)..Len(executed')}

\* At least `delay` processFrame() calls have completed since the enqueue.
Ripe(e) == e.age >= e.delay

PendingSet(p) == {p[i] : i \in 1..Len(p)}

\* C2: an action enqueued with dispose(action, k) is never executed by
\* tryDisposeOne() or disposeReady() before k processFrame() calls have
\* completed after the enqueue; while no pending action has had its k frames,
\* tryDisposeOne() returns false and changes nothing; once one has (k = 2: after
\* the second processFrame()), tryDisposeOne() returns true and removes exactly
\* one entry, so it returns true once per ripe action and false afterwards.
DisposalDelayLaw ==
    [][ /\ dRet'.op \in {"tryDisposeOne", "disposeReady"} =>
             \A i \in 1..Len(pending) :
                 pending[i].id \in NewlyInvoked => Ripe(pending[i])
        /\ dRet'.op = "tryDisposeOne" =>
             /\ (\A i \in 1..Len(pending) : ~Ripe(pending[i])) =>
                    /\ dRet'.val = "false"
                    /\ pending' = pending
                    /\ executed' = executed
             /\ ( /\ \E i \in 1..Len(pending) : Ripe(pending[i])
                  /\ \A i \in 1..Len(pending) :
                         pending[i].deleter \in {"ok", "throws"} ) =>
                    /\ dRet'.val = "true"
                    /\ Len(pending') = Len(pending) - 1
                    /\ Cardinality(NewlyInvoked) = 1
      ]_vars

\* Witness of C2: tryDisposeOne() has just returned true for an action that was
\* enqueued with frameDelay = 2.
DisposalDelayWitness ==
    /\ dRet.op = "tryDisposeOne"
    /\ dRet.val = "true"
    /\ executed # <<>>
    /\ executed[Len(executed)].delay = 2
    /\ executed[Len(executed)].by = "tryDisposeOne"

\* C5: a disposal action that throws is removed and counted as disposed
\* (tryDisposeOne() returns true), the exception does not leave the call, every
\* other pending entry is kept unchanged, and disposeAll() goes on to run every
\* entry after an action that throws.
DisposalIsolation ==
    [][ \A i \in 1..Len(pending) :
          ( /\ pending[i].id \in NewlyInvoked
            /\ pending[i].deleter \in {"throws", "throwsOther"} ) =>
             /\ dRet'.op = "tryDisposeOne" =>
                  /\ dRet'.val = "true"
                  /\ PendingSet(pending') = PendingSet(pending) \ {pending[i]}
             /\ dRet'.op = "disposeAll" =>
                  /\ dRet'.val = "void"
                  /\ \A j \in 1..Len(pending) : pending[j].id \in NewlyInvoked
      ]_vars

(***************************************************************************)
(* Properties of the frame loop                                            *)
(***************************************************************************)
\* beginFrame() has just returned nullopt from its out-of-date branch, after
\* recreating the swap chain.
SkippedOutOfDate ==
    /\ pc = "idle"
    /\ wRet = Returned("beginFrame", "nullopt")
    /\ calls # <<>>
    /\ calls[Len(calls)] = "recreate"

\* Every variable a Window call that does nothing leaves alone.
untouched == <<framesInFlight, windowAlive, windowDevice,
               deviceDestructionCallbackId, swapChain, inFlightFences,
               imageAvailableSemaphores, renderFinishedSemaphores,
               currentFrameIndex, currentImageIndex, framebufferResized,
               pc, caller, width, frame, submitted, devvars, envvars>>

\* C1: beginFrame() returns a FrameInfo for slot i only after the wait on the
\* fence of slot i has seen it signaled, it resets that fence before it
\* returns, no submission of slot i is then unretired, and at no time do two
\* unretired submissions use the same slot.
NoSlotReuse ==
    [][ /\ (BeginFrameAcquire /\ wRet'.val = "frame") =>
              /\ frame'.valid
              /\ frame'.frameIndex = currentFrameIndex
              /\ inFlightFences[frame'.frameIndex]
              /\ ~inFlightFences'[frame'.frameIndex]
              /\ calls' = <<"fenceWait", "acquireNextImage", "fenceReset">>
              /\ \A k \in 1..Len(inFlight') : inFlight'[k] # frame'.frameIndex
        /\ \A j, k \in 1..Len(inFlight') : j # k => inFlight'[j] # inFlight'[k]
        /\ \A k \in 1..Len(inFlight') : ~inFlightFences'[inFlight'[k]]
      ]_vars

\* Witness of C1: with two slots, beginFrame() has handed out one slot while the
\* submission of the other slot is still unretired.
NoSlotReuseWitness ==
    /\ framesInFlight = 2
    /\ wRet = Returned("beginFrame", "frame")
    /\ frame.valid
    /\ inFlight = <<1 - frame.frameIndex>>

OutOfDateSkip ==
    [][ /\ ((BeginFrameAcquire \/ RecreateWaitEvents) /\ SkippedOutOfDate') =>
              /\ currentFrameIndex' = currentFrameIndex
              /\ inFlightFences'[currentFrameIndex]
              /\ "fenceReset" \notin {calls'[k] : k \in 1..Len(calls')}
              /\ swapChain'.exists
              /\ ~swapChain'.needsRecreation
              /\ swapChain'.extent =
                     (IF pc = "beginFrame_wait" THEN fbSize ELSE width)
              /\ frame' = frame
        /\ SkippedOutOfDate' => inFlightFences'[currentFrameIndex']
        /\ (SkippedOutOfDate /\ BeginFrame /\ fbSize # 0) =>
              /\ pc' = "beginFrame_wait"
              /\ currentFrameIndex' = currentFrameIndex
              /\ inFlightFences'[currentFrameIndex']
        /\ (BeginFrameAcquire /\ inFlightFences[currentFrameIndex]
                              /\ swapChain.extent = fbSize) =>
              /\ wRet' = Returned("beginFrame", "frame")
              /\ frame'.valid
              /\ frame'.frameIndex = currentFrameIndex
      ]_vars

\* Witness of C4: beginFrame() has skipped a frame on an out-of-date acquire
\* and the recreated swap chain matches the surface again.
OutOfDateSkipWitness ==
    /\ SkippedOutOfDate
    /\ calls = <<"fenceWait", "acquireNextImage", "waitIdle", "recreate">>
    /\ swapChain.extent = fbSize

\* C6: releaseDeviceResources() on a bound window waits for the device to be
\* idle, then destroys the fences, the semaphores and the swap chain, and
\* leaves the window unbound; on an unbound window (a second call, or a window
\* never bound) it makes no device call, raises nothing and changes nothing.
ReleaseIdempotent ==
    [][ ReleaseDeviceResources =>
          /\ wRet' = Returned("releaseDeviceResources", "void")
          /\ ~windowDevice'
          /\ DOMAIN inFlightFences' = {}
          /\ DOMAIN imageAvailableSemaphores' = {}
          /\ DOMAIN renderFinishedSemaphores' = {}
          /\ ~swapChain'.exists
          /\ IF windowDevice
             THEN /\ inFlight' = <<>>
                  /\ \E k \in 1..Len(calls') :
                        /\ calls'[k] = "waitIdle"
                        /\ SubSeq(calls', k + 1, Len(calls')) =
                               <<"destroyFences", "destroySemaphores",
                                 "destroySwapChain">>
                  /\ \A k \in 1..Len(destructionCallbacks') :
                        destructionCallbacks'[k].owner # "window"
             ELSE /\ calls' = <<>>
                  /\ UNCHANGED untouched
      ]_vars

\* Witness of C6: a second releaseDeviceResources() in a row has returned, on
\* a window that had been bound.
ReleaseIdempotentWitness ==
    /\ wRet = Returned("releaseDeviceResources", "void")
    /\ calls = <<>>
    /\ ~windowDevice
    /\ nextCallbackId > 1

\* C7: when the device is destroyed, every callback registered at that moment
\* is invoked once, in registration order, before the handle is destroyed, and
\* the registry is empty afterwards.
DestructionCallbacksRun ==
    [][ DeviceDestroy =>
          /\ callbacksInvoked' =
                 callbacksInvoked \o
                 [k \in 1..Len(destructionCallbacks) |->
                      destructionCallbacks[k].id]
          /\ destructionCallbacks' = <<>>
      ]_vars

\* C8: when the device is destroyed while the window is bound to it, the
\* window's fences, semaphores and swap chain are destroyed with the device
\* idle and the window ends up unbound, so that no later Window call touches
\* the destroyed device.
WindowReleasedWithDevice ==
    [][ /\ (DeviceDestroy /\ windowDevice) =>
              /\ ~windowDevice'
              /\ inFlight' = <<>>
              /\ DOMAIN inFlightFences' = {}
              /\ DOMAIN imageAvailableSemaphores' = {}
              /\ DOMAIN renderFinishedSemaphores' = {}
              /\ ~swapChain'.exists
        /\ ~useAfterFree'
      ]_vars

\* C9: beginFrame() on a bound window whose framebuffer has zero size returns
\* nullopt, waits on nothing, acquires nothing, resets nothing, recreates
\* nothing and leaves the slot index and everything else as it was.
MinimizedSkip ==
    [][ (BeginFrame /\ windowDevice /\ fbSize = 0) =>
          /\ wRet' = Returned("beginFrame", "nullopt")
          /\ calls' = <<>>
          /\ UNCHANGED untouched
      ]_vars

\* Witness of C9: beginFrame() has returned nullopt on a minimized bound window.
MinimizedSkipWitness ==
    /\ wRet = Returned("beginFrame", "nullopt")
    /\ calls = <<>>
    /\ windowDevice
    /\ fbSize = 0
    /\ pc = "idle"

RecreateCount(log) == Cardinality({k \in 1..Len(log) : log[k] = "recreate"})

BindOnce ==
    [][ BindDevice =>
          IF windowDevice
          THEN /\ wRet' = Returned("bindDevice", "throw")
               /\ calls' = <<>>
               /\ UNCHANGED untouched
          ELSE /\ wRet' = Returned("bindDevice", "void")
               /\ windowDevice'
               /\ swapChain'.exists
               /\ DOMAIN inFlightFences' = Slots
               /\ DOMAIN imageAvailableSemaphores' = Slots
               /\ DOMAIN renderFinishedSemaphores' = Slots
               /\ currentFrameIndex' = currentFrameIndex
               /\ deviceDestructionCallbackId' # 0
               /\ Cardinality({k \in 1..Len(destructionCallbacks') :
                      destructionCallbacks'[k].id =
                          deviceDestructionCallbackId'}) = 1
      ]_vars

\* Witness of C12: bindDevice() has thrown on a window that was bound, released
\* and bound again.
BindOnceWitness ==
    /\ wRet = Returned("bindDevice", "throw")
    /\ windowDevice
    /\ deviceDestructionCallbackId = 2

\* The step ends a Window call whose last act is SwapChain::recreate().
RecreationStep ==
    /\ calls' # calls
    /\ calls' # <<>>
    /\ calls'[Len(calls')] = "recreate"

\* C13: the generation of a swap chain goes up by exactly one in every
\* recreation and changes in no other step; a recreation happens only in a
\* beginFrame() whose acquire finds the surface changed, in an endFrame() whose
\* present reports out-of-date or suboptimal or which finds the resize flag
\* set, or at the end of the wait such a call entered.  A beginFrame() that
\* returns a FrameInfo and an endFrame() whose present succeeds with no resize
\* flag pending leave the swap chain, its extent and its generation alone.
GenerationOnlyOnInvalidation ==
    [][ /\ RecreationStep =>
              /\ swapChain.exists /\ swapChain'.exists
              /\ swapChain'.generation = swapChain.generation + 1
              /\ \/ BeginFrameAcquire /\ swapChain.extent # fbSize
                 \/ /\ EndFrame
                    /\ \/ calls'[2] \in {"VK_ERROR_OUT_OF_DATE_KHR",
                                         "VK_SUBOPTIMAL_KHR"}
                       \/ framebufferResized
                 \/ RecreateWaitEvents
        /\ (swapChain.exists /\ swapChain'.exists /\ ~RecreationStep) =>
              /\ swapChain'.generation = swapChain.generation
              /\ swapChain'.extent = swapChain.extent
        /\ (BeginFrameAcquire /\ wRet'.val = "frame") =>
              /\ ~RecreationStep
              /\ swapChain'.generation = swapChain.generation
        /\ ( /\ EndFrame /\ windowDevice
             /\ calls'[2] = "VK_SUCCESS"
             /\ ~framebufferResized ) =>
              /\ ~RecreationStep
              /\ swapChain' = swapChain
      ]_vars

\* Witness of C13: a swap chain has been recreated twice, the second time in an
\* endFrame().
GenerationWitness ==
    /\ swapChain.exists
    /\ swapChain.generation = 2
    /\ wRet = Returned("endFrame", "false")

\* The size Window::recreateSwapChain() passes to SwapChain::recreate() in the
\* step: the size read before the wait, or the framebuffer size.
RecreateTarget == IF pc = "recreate_waitEvents" THEN width ELSE fbSize

\* C14 (as stated): a recreation made while the swap chain already has the
\* target extent is a no-op: the swap chain is not rebuilt and its generation
\* is unchanged.
RecreateIdempotent ==
    [][ (RecreationStep /\ swapChain.extent = RecreateTarget) =>
          /\ swapChain'.generation = swapChain.generation
          /\ swapChain'.extent = swapChain.extent
      ]_vars

\* C14 (amended): every recreation rebuilds the swap chain, whatever its
\* extent was: the device is idle, the extent is the target, needsRecreation is
\* cleared and the generation is one higher; two recreations at one size leave
\* the extent and the flag of a single one, and a generation two higher.
RecreateAlwaysRebuilds ==
    [][ RecreationStep =>
          /\ swapChain' = [exists |-> TRUE, extent |-> RecreateTarget,
                           needsRecreation |-> FALSE,
                           generation |-> swapChain.generation + 1]
          /\ inFlight' = <<>>
          /\ ("atTargetSize" \in {calls'[k] : k \in 1..Len(calls')})
                 <=> (swapChain.extent = RecreateTarget)
          /\ Recreate(swapChain', swapChain'.extent) =
                 [swapChain' EXCEPT !.generation = @ + 1]
      ]_vars

\* Witness of C14: after a first recreation an endFrame() whose present
\* succeeded has recreated the swap chain again, at the extent it already had.
RecreateAlwaysRebuildsWitness ==
    /\ wRet = Returned("endFrame", "false")
    /\ calls = <<"present", "VK_SUCCESS", "waitIdle", "atTargetSize", "recreate">>
    /\ swapChain.generation = 2

(***************************************************************************)
(* Properties of DeferredDisposer under concurrent callers                 *)
(***************************************************************************)
\* How often the action with identity id is in the queue, in the hands of a
\* thread that has moved it out and is about to invoke it, and in the record
\* of invocations.
TimesPending(id) == Cardinality({i \in 1..Len(pending) : pending[i].id = id})
TimesHeld(id) ==
    Cardinality({x \in Threads \X (1..MaxActions) :
                    /\ x[2] <= Len(threads[x[1]].held)
                    /\ threads[x[1]].held[x[2]].id = id})
TimesExecuted(id) ==
    Cardinality({i \in 1..Len(executed) : executed[i].id = id})

\* C15: under every interleaving of the disposer's calls on several threads,
\* every enqueued action is at every moment exactly once pending or on its way
\* to being invoked, or has been invoked exactly once; none is lost and none
\* runs twice.  (An empty std::function holds no action: it may be destroyed
\* uninvoked.)
ExactlyOnce ==
    \A id \in 1..(nextAction - 1) :
        IF \E d \in dropped : d.id = id /\ d.deleter = "empty"
        THEN TimesPending(id) + TimesHeld(id) + TimesExecuted(id) = 0
        ELSE TimesPending(id) + TimesHeld(id) + TimesExecuted(id) = 1

\* C16: tryDisposeOne() returns true if and only if some pending entry has
\* framesRemaining == 0 at the time of the call (readyCount() # 0); when it
\* returns true exactly one such entry has been removed and its action invoked
\* once; when it does not, the queue is unchanged and no action was invoked.
\* This for every queued action value, an empty deleter included.
TryDisposeOneContract ==
    [][ TryDisposeOne =>
          /\ (dRet'.val = "true") <=> (ReadyCount(pending) # 0)
          /\ dRet'.val = "true" =>
               \E i \in 1..Len(pending) :
                   /\ pending[i].framesRemaining = 0
                   /\ PendingSet(pending') = PendingSet(pending) \ {pending[i]}
                   /\ Len(pending') = Len(pending) - 1
                   /\ executed' =
                        Append(executed, Invocation(pending[i], "tryDisposeOne"))
          /\ dRet'.val # "true" =>
               /\ pending' = pending
               /\ executed' = executed
      ]_vars

\* C17: disposeAll() invokes every action pending at the time of the call
\* exactly once and in queue order, whatever its framesRemaining, goes on past
\* actions that throw, returns normally and leaves the queue empty.
DisposeAllRunsEverything ==
    [][ DisposeAll =>
          /\ executed' = executed \o Invocations(pending, "disposeAll")
          /\ dropped' = dropped
          /\ dRet'.val = "void"
          /\ Len(pending') = 0
      ]_vars

(***************************************************************************)
(* Properties of GameLoop                                                  *)
(***************************************************************************)
\* C18: in the frame loop with its default configuration every application
\* frame calls DeferredDisposer::processFrame() exactly once, so that every
\* pending entry is one frame older after the frame (an entry queued with
\* frameDelay k is ready after k frames), and the frame executes no more
\* entries than its bounded number of tryDisposeOne() calls.
ProcessFrameEveryFrame ==
    [][ RunFrame =>
          /\ Cardinality({i \in 1..Len(gcCalls') :
                             gcCalls'[i] = "processFrame"}) = 1
          /\ \A i \in 1..Len(pending) : \A j \in 1..Len(pending') :
                 pending'[j].id = pending[i].id =>
                     /\ pending'[j].age = Min(pending[i].age + 1, MaxAge)
                     /\ pending'[j].framesRemaining = 0 <=> Ripe(pending'[j])
          /\ Len(executed') - Len(executed) <= Len(gcCalls') - 1
          /\ Len(gcCalls') - 1 <= MaxActions
      ]_vars

(***************************************************************************)
(* Properties of FrameSyncObjects and of the slots of Window               *)
(***************************************************************************)
\* C19: 0 <= currentFrame() < frameCount() in every reachable state of a
\* FrameSyncObjects, for every frame count it can be constructed with;
\* advanceFrame() moves the index to (index + 1) mod frameCount, so that after
\* n advances from the construction the index is n mod frameCount and
\* frameCount consecutive advances return it to where it started.
SlotIndexInRange ==
    /\ [](frameSync.exists =>
            frameSync.currentFrame \in 0..(FrameCount(frameSync) - 1))
    /\ [][ (AdvanceFrame /\ ~syncUndefined') =>
             /\ frameSync'.currentFrame =
                    (frameSync.currentFrame + 1) % FrameCount(frameSync)
             /\ frameSync'.currentFrame = advances' % FrameCount(frameSync)
         ]_vars

\* C20: right after the construction of a FrameSyncObjects and after every
\* bindDevice() that binds (the first one and a rebind after
\* releaseDeviceResources(), at whatever slot index the window then is) the
\* in-flight fence of every slot is signaled and nothing is in flight; a
\* signaled fence is unsignaled only by the beginFrame() that hands out its
\* slot (by resetFrame() on the current slot), and beginFrame() hands out a
\* slot only when the wait on its fence can return.  So the first beginFrame()
\* on each slot finds its fence signaled and waits for no GPU work.
FencesStartSignaled ==
    [][ /\ Construct =>
              \A i \in 1..FrameCount(frameSync') : frameSync'.inFlight[i]
        /\ (BindDevice /\ wRet'.val = "void") =>
              /\ \A i \in Slots : inFlightFences'[i]
              /\ inFlight' = <<>>
              /\ currentFrameIndex' = currentFrameIndex
        /\ \A i \in Slots :
              ( /\ i \in DOMAIN inFlightFences /\ i \in DOMAIN inFlightFences'
                /\ inFlightFences[i] /\ ~inFlightFences'[i] ) =>
                  /\ BeginFrameAcquire
                  /\ wRet'.val = "frame"
                  /\ frame'.frameIndex = i
                  /\ i = currentFrameIndex
        /\ \A i \in 1..FrameCount(frameSync) :
              ( /\ frameSync'.exists
                /\ frameSync.inFlight[i] /\ ~frameSync'.inFlight[i] ) =>
                  /\ ResetFrame
                  /\ frameSync.currentFrame = i - 1
      ]_vars

\* Witness of C20: the window was released and bound again while it stood at
\* slot 1, and the first beginFrame() of the new binding has handed out slot 1
\* with nothing in flight and slot 0 untouched.
FencesStartSignaledWitness ==
    /\ framesInFlight = 2
    /\ deviceDestructionCallbackId = 2
    /\ wRet = Returned("beginFrame", "frame")
    /\ frame.valid /\ frame.frameIndex = 1
    /\ inFlightFences[0] /\ ~inFlightFences[1]
    /\ inFlight = <<>>
    /\ frameSync.exists /\ FrameCount(frameSync) = 2

(***************************************************************************)
(* Properties of SwapChain                                                 *)
(***************************************************************************)
Invalidating == {"VK_ERROR_OUT_OF_DATE_KHR", "VK_SUBOPTIMAL_KHR"}

NoRecreateAtZeroArea ==
    [][ RecreationStep => (RecreateTarget # 0 /\ fbSize # 0) ]_vars

(***************************************************************************)
(* Properties of Window on a lost device                                   *)
(***************************************************************************)
\* C23: a failed wait on the slot's fence in beginFrame() and a present result
\* other than success, out-of-date and suboptimal in endFrame() reach the
\* caller as an error (an exception), not as the skip values nullopt and
\* false, and the call does not go on: after a failed wait beginFrame()
\* acquires nothing and hands out no frame.
FaultsSurfaced ==
    [][ /\ BeginFrameAcquireLost =>
             /\ wRet'.val = "throw"
             /\ ~frame'.valid
             /\ calls' = <<"fenceWaitFailed">>
        /\ EndFrameLost => wRet'.val = "throw"
      ]_vars

(***************************************************************************)
(* Properties of SimpleRenderer                                            *)
(***************************************************************************)
\* C24: the semaphores and the fence of a frame handed out by beginFrame()
\* are those of the slot FrameInfo.frameIndex, the current slot, and the
\* image was acquired signaling that slot's imageAvailable; until the present
\* of the matching endFrame() the slot index and the image index stay those
\* of the frame, so the present shows FrameInfo.imageIndex and waits on that
\* slot's renderFinished; SimpleRenderer::endFrame() submits for that slot
\* (waiting on imageAvailable, signaling renderFinished and the fence) before
\* it presents.
FramePairing ==
    /\ [](frame.valid =>
            /\ frame.frameIndex \in Slots
            /\ frame.frameIndex = currentFrameIndex
            /\ frame.imageIndex = currentImageIndex)
    /\ [][ /\ (RendererBeginFrameAcquire /\ wRet'.val = "frame") =>
                /\ frame'.valid
                /\ frame'.frameIndex = currentFrameIndex
                /\ imageAvailableSemaphores'[frame'.frameIndex]
                /\ ~inFlightFences'[frame'.frameIndex]
           /\ RendererEndFrame =>
                /\ currentFrameInfo = frame
                /\ SlotOf(currentFrameInfo) = currentFrameIndex
                /\ imageAvailableSemaphores[currentFrameIndex]
                /\ renderFinishedSemaphores'[currentFrameIndex]
                /\ inFlight'[Len(inFlight')] = currentFrameIndex
                /\ ~inFlightFences[currentFrameIndex]
           /\ RendererPresent =>
                /\ submitted
                /\ currentFrameInfo = frame
                /\ frame.frameIndex = currentFrameIndex
                /\ frame.imageIndex = currentImageIndex
                /\ renderFinishedSemaphores[currentFrameIndex]
         ]_vars

\* A frame of the second slot, showing the second image, has been submitted
\* and presented through SimpleRenderer.
FramePairingWitness ==
    /\ renderer /\ rpc = "idle" /\ framesInFlight = 2
    /\ wRet = Returned("endFrame", "true")
    /\ currentFrameIndex = 0 /\ currentImageIndex = 1
    /\ ~frameInProgress /\ ~frame.valid
    /\ inFlight # <<>> /\ inFlight[Len(inFlight)] = 1

\* C25: SimpleRenderer never records a render pass with a framebuffer built
\* from the image views of an earlier generation of the swap chain: after
\* every recreation, whatever its cause and also when the extent is the same,
\* the framebuffers are rebuilt before the next render pass is recorded.
NoStaleFramebuffer ==
    [][ RendererBeginRenderPass =>
            renderPass'.framebuffer = renderPass'.swapChain ]_vars

(***************************************************************************)
(* Further properties of DeferredDisposer                                  *)
(***************************************************************************)
\* The entry of queue p with the given id.
EntryOf(p, id) == CHOOSE e \in PendingSet(p) : e.id = id

\* The ids of the entries of queue p.
IdsOf(p) == {e.id : e \in PendingSet(p)}

\* C26: processFrame() lowers framesRemaining by exactly 1 where it is
\* positive and leaves 0 at 0 (no wrap of the unsigned counter); no other
\* operation (dispose, the swap-with-last removal of tryDisposeOne,
\* readyCount, pendingCount) changes framesRemaining or the action of an entry
\* that stays pending, so a ready entry that is still pending is still ready.
FramesRemainingLaw ==
    [][ /\ ProcessFrame =>
             /\ Len(pending') = Len(pending)
             /\ \A i \in 1..Len(pending) :
                  /\ pending'[i].id = pending[i].id
                  /\ pending'[i].deleter = pending[i].deleter
                  /\ pending[i].framesRemaining > 0 =>
                       pending'[i].framesRemaining =
                           pending[i].framesRemaining - 1
                  /\ pending[i].framesRemaining = 0 =>
                       pending'[i].framesRemaining = 0
        /\ ~ProcessFrame =>
             \A id \in IdsOf(pending) \cap IdsOf(pending') :
                  /\ EntryOf(pending', id).framesRemaining =
                         EntryOf(pending, id).framesRemaining
                  /\ EntryOf(pending', id).deleter =
                         EntryOf(pending, id).deleter
        /\ \A id \in IdsOf(pending) \cap IdsOf(pending') :
             EntryOf(pending, id).framesRemaining = 0 =>
                 EntryOf(pending', id).framesRemaining = 0
      ]_vars

\* processFrame() has run on a queue that holds an entry already at 0 and an
\* entry it has lowered from 2 to 1.
FramesRemainingWitness ==
    /\ dRet.op = "processFrame"
    /\ Len(pending) = 2
    /\ pending[1].delay = 2 /\ pending[1].framesRemaining = 1
    /\ pending[2].delay = 0 /\ pending[2].framesRemaining = 0
    /\ pending[2].age >= 1

(***************************************************************************)
(* Properties of Window::bindDevice()                                      *)
(***************************************************************************)
\* C27: hasDevice() implies that the swap chain exists and that exactly
\* framesInFlight fences and semaphore pairs exist; a bindDevice() that fails
\* part-way leaves the window unbound with no destruction callback
\* registered, so that a later frame call reports 'not bound' and a retry of
\* bindDevice() is not rejected as 'already bound'.
BoundMeansComplete ==
    /\ [](windowDevice =>
            /\ swapChain.exists
            /\ DOMAIN inFlightFences = Slots
            /\ DOMAIN imageAvailableSemaphores = Slots
            /\ DOMAIN renderFinishedSemaphores = Slots)
    /\ [][ /\ BindDeviceFails =>
                /\ ~windowDevice'
                /\ deviceDestructionCallbackId' = 0
                /\ destructionCallbacks' = destructionCallbacks
           /\ (wRet'.op \in FrameCalls /\ wRet.op = "bindDevice"
                 /\ wRet.val = "throw" /\ calls # <<>>) =>
                wRet'.val = "throw"
           /\ (BindDevice /\ wRet.op = "bindDevice"
                 /\ wRet.val = "throw" /\ calls # <<>>) =>
                wRet'.val = "void"
         ]_vars

\* The places of `executed` filled by the step.
NewPlaces == (Len(executed) + 1)..Len(executed')

\* C28: ready disposals are executed in the order of their enqueue: when a
\* and b are both pending with framesRemaining = 0 and a was enqueued before
\* b, tryDisposeOne() and disposeReady() execute a before b, whatever the
\* queue holds.
ReadyInEnqueueOrder ==
    [][ (TryDisposeOne \/ DisposeReady) =>
          \A j \in NewPlaces : \A a \in PendingSet(pending) :
              (a.framesRemaining = 0 /\ a.id < executed'[j].id) =>
                  \E i \in NewPlaces : i < j /\ executed'[i].id = a.id
      ]_vars

\* The entries a thread has taken out of the queue.
HeldSet(t) == {threads[t].held[i] : i \in 1..Len(threads[t].held)}

\* C29: disposal actions run with the mutex released: while a deleter runs
\* the mutex is free, so the deleter may call dispose(), pendingCount() and
\* tryDisposeOne() and other threads may enqueue; an entry enqueued while a
\* deleter of disposeAll() runs goes to the queue with its own delay, is in
\* no thread's toDispose, and the rest of disposeAll() leaves the queue alone.
ActionsRunUnlocked ==
    /\ [](\A t \in Threads : InAction(t) => mutex = "free")
    /\ [][ /\ ((NestedDispose \/ MutexDispose) /\ InsideDisposeAll) =>
                /\ Len(pending') = Len(pending) + 1
                /\ pending'[Len(pending')].framesRemaining =
                       pending'[Len(pending')].delay
                /\ \A t \in Threads :
                       pending'[Len(pending')] \notin
                           {threads'[t].held[i] :
                                i \in 1..Len(threads'[t].held)}
           /\ (InsideDisposeAll /\ (ActionEnd \/ DisposeAllReturn)) =>
                /\ pending' = pending
                /\ NewlyInvoked \subseteq
                       UNION {{e.id : e \in HeldSet(t)} : t \in Threads}
         ]_vars

\* A deleter invoked by disposeAll() is running and has enqueued an entry,
\* which is pending.
ActionsRunUnlockedWitness ==
    /\ threads["render"].pc = ActionOf("disposeAll")
    /\ threads["worker"].pc = "idle"
    /\ dRet.op = "dispose"
    /\ Len(pending) = 1
    /\ pending[1].id > threads["render"].held[1].id
    /\ pending[1].framesRemaining = 1

(***************************************************************************)
(* Progress of the frame calls                                             *)
(***************************************************************************)
\* C30: under a fair GPU every beginFrame() on a bound window that is not
\* minimized returns, whatever calls came before, also when the frame handed
\* out before was abandoned without a submission: a call that waits on the
\* fence of its slot eventually leaves the wait.
BeginFrameReturns == (pc = "beginFrame_wait") ~> (pc = "idle")
====
